---- MODULE Spec2Model ----
(***************************************************************************)
(* Verification model of the Maya asset-publishing pipeline                *)
(* (mayaMenuBar/commands/shader_publish.py in its 25.12.7 and 26.02.03     *)
(* revisions, and the farm worker utils/mayaUsdDeadlineJobs.py).           *)
(*                                                                         *)
(* The specifications share one set of variables:                          *)
(*   SpecAlloc  the version allocator on a publish parent directory        *)
(*   SpecLod    the per-level reduction percentage (local loop and worker) *)
(*   Spec       one publish: local, farm (Deadline) or 25.12.7 lookdev     *)
(*   SpecRebind the 25.12.7 material rebinder, run once or twice           *)
(*   SpecSg     publishers creating the review record of one task          *)
(*   SpecRace   concurrent callers of the version allocator                *)
(***************************************************************************)
EXTENDS Integers, Sequences, FiniteSets, TLC

VARIABLES
    \* ---- version allocator (publish parent directory) ----
    parentExists,   \* os.path.isdir(maya_pub_root)
    entries,        \* os.listdir(maya_pub_root): set of [name, isdir]
    scanned,        \* the listing the last allocation scanned
    issued,         \* labels returned so far, in call order
    allocResult,    \* outcome of the last allocation: "none" | "ok" | "error"
    \* ---- LOD planner ----
    base_percent,   \* lodReduceSpinBox value / config lod_percent
    lod_total,      \* lodCountSpinBox value / config lod_count
    localPct,       \* level -> remove_percent computed by run_local_publish
    workerPct,      \* level -> remove_percent computed by the farm lod worker
    \* ---- one publish ----
    mode,           \* "local" | "farm" | "lookdev"
    cfg,            \* the UI options of this publish
    pc,             \* position of the initiating handler
    files,          \* artifacts present under the version directory
    outcome,        \* task -> what its external exporter did
    status,         \* task -> build-task status
    deps,           \* task -> dependency set handed to the scheduler
    assembly_dependencies, \* the list run_deadline_publish accumulates
    texPending,     \* local texture futures still running
    payloadSubs,    \* subLayerPaths of payload.usdc (25.12.7)
    payloadInputs,  \* the list handed to _write_payload_contents_layer
    vsets,          \* authored variant sets: name -> [variants, selection]
    \* ---- material rebinder (25.12.7) ----
    stageMats,      \* material prims of the composed payload, in traversal order
    baseBind,       \* binding site -> target authored in the fragments
    meta_layer,     \* meta.usdc: copied materials and binding overrides
    mat_remap,      \* old path -> new name, as left by the last pass
    passLog,        \* per pass: what it did and the document it left
    \* ---- review records (Shotgun Version entities of one task) ----
    sgVersions,     \* codes of the task's Version entities, in creation order
    sgEnv,          \* publisher -> its HAL_USER_ABBR, anim_tag and version dir
    sgPc,           \* publisher -> "idle" | "found" | "created"
    sgCode,         \* publisher -> the code it computed
    \* ---- concurrent callers of the version allocator ----
    callers,        \* caller -> [pc, max_n, version, isdir, result]
    \* ---- LOD duplicates ----
    reductions,     \* level -> percents applied to the duplicate it was exported from
    \* ---- output paths ----
    top_name,       \* paths['top_name'] as read by the step that writes the top document
    \* ---- publish environment ----
    hal_root,       \* os.environ.get("HAL_TASK_ROOT", "")
    pub_root,       \* the root the version directory was allocated under
    \* ---- mesh reduction of one duplicate ----
    redTree,        \* which tree's _reduce_with_cleanup runs
    redMeshes,      \* number of mesh transforms under the duplicate
    redCalls,       \* per reduced transform: the tool calls made and what the helper returned
    redLoop,        \* the loop of _duplicate_and_reduce: "running" | "done" | "raised"
    \* ---- environment handed to a farm job ----
    os_environ,     \* os.environ of the submitting process: key -> value
    job_env,        \* the EnvironmentKeyValue<i> entries of the job info
    envSubmitter,   \* which submitter built them: "none" | "26.02.03" | "25.12.7"
    \* ---- the Maya scene around the proxy export ----
    scene,          \* node -> its current name, or Absent: the source top node and the proxy duplicate
    \* ---- texture tiers of one source path ----
    tex_path,       \* the fileTextureName of one file node, as path segments
    tex_switched,   \* tier -> the path the shader variant of that tier was switched to
    tex_local,      \* tier -> the [src, dst] pairs the local converter wrote
    tex_farm,       \* tier -> the [src, dst] pairs the farm script wrote
    \* ---- the texture_convert job ----
    sorted_files,   \* length of the tile manifest
    oiioPc,         \* "none" | "submitted"
    oiioTasks,      \* the [start, end] frame ranges of the tasks not yet run
    converted       \* manifest index -> number of tasks that converted the entry

allocVars == <<parentExists, entries, scanned, issued, allocResult>>
lodVars == <<base_percent, lod_total, localPct, workerPct>>
pubVars == <<mode, cfg, pc, files, outcome, status, deps,
             assembly_dependencies, texPending, payloadSubs, payloadInputs,
             vsets>>
rebVars == <<stageMats, baseBind, meta_layer, mat_remap, passLog>>
sgVars == <<sgVersions, sgEnv, sgPc, sgCode>>
raceVars == <<callers>>
dupVars == <<reductions>>
nameVars == <<top_name>>
envVars == <<hal_root, pub_root>>
redVars == <<redTree, redMeshes, redCalls, redLoop>>
jobEnvVars == <<os_environ, job_env, envSubmitter>>
sceneVars == <<scene>>
texVars == <<tex_path, tex_switched, tex_local, tex_farm>>
oiioVars == <<sorted_files, oiioPc, oiioTasks, converted>>
sideVars == <<rebVars, sgVars, raceVars, dupVars, nameVars,
             envVars, redVars, jobEnvVars, sceneVars, texVars, oiioVars>>
vars == <<parentExists, entries, scanned, issued, allocResult,
          base_percent, lod_total, localPct, workerPct,
          mode, cfg, pc, files, outcome, status, deps,
          assembly_dependencies, texPending, payloadSubs, payloadInputs,
          vsets,
          stageMats, baseBind, meta_layer, mat_remap, passLog,
          sgVersions, sgEnv, sgPc, sgCode, callers, reductions, top_name,
          hal_root, pub_root,
          redTree, redMeshes, redCalls, redLoop,
          os_environ, job_env, envSubmitter,
          scene,
          tex_path, tex_switched, tex_local, tex_farm,
          sorted_files, oiioPc, oiioTasks, converted>>

(***************************************************************************)
(* Bounds                                                                  *)
(***************************************************************************)
MaxEntries == 3
MaxPublishes == 3
MaxLevel == 3
MaxLod == 2
MaxTex == 2
MaxMats == 3
MaxPasses == 2
MaxSgPublishers == 2
MaxSgPrior == 2
MaxCallers == 2
MaxRaceEntries == 1
MaxMeshes == 3
MaxEnvVars == 3
MaxDirs == 3
MaxManifest == 101

(***************************************************************************)
(* Text helpers: names are sequences of one-character strings              *)
(***************************************************************************)
DigitChars == <<"0", "1", "2", "3", "4", "5", "6", "7", "8", "9">>

IsDigit(c) == \E d \in 1..10 : DigitChars[d] = c

DigitVal(c) == (CHOOSE d \in 1..10 : DigitChars[d] = c) - 1

RECURSIVE ParseInt(_)
ParseInt(ds) ==
    IF ds = <<>> THEN 0
    ELSE 10 * ParseInt(SubSeq(ds, 1, Len(ds) - 1)) + DigitVal(ds[Len(ds)])

RECURSIVE ToDigits(_)
ToDigits(n) ==
    IF n < 10 THEN <<DigitChars[n + 1]>>
    ELSE ToDigits(n \div 10) \o <<DigitChars[(n % 10) + 1]>>

RECURSIVE ZeroPad(_, _)
ZeroPad(ds, width) == IF Len(ds) >= width THEN ds ELSE ZeroPad(<<"0">> \o ds, width)

RECURSIVE SetMax(_)
SetMax(S) ==
    IF S = {} THEN 0
    ELSE LET x == CHOOSE y \in S : TRUE
             m == SetMax(S \ {x})
         IN IF x > m THEN x ELSE m

(***************************************************************************)
(* VersionAllocator                                                        *)
(***************************************************************************)
VersionPat_exact3(name) ==
    /\ Len(name) = 4
    /\ name[1] \in {"v", "V"}
    /\ \A i \in 2..Len(name) : IsDigit(name[i])

\* re.compile(r'^v(\d{3,})$', re.IGNORECASE).match(name)
VersionPat(name) ==
    /\ Len(name) >= 4
    /\ name[1] \in {"v", "V"}
    /\ \A i \in 2..Len(name) : IsDigit(name[i])

\* int(m.group(1))
VersionNum(name) == ParseInt(SubSeq(name, 2, Len(name)))

\* the numbers the scan loop feeds into max_n
ScannedNumbers(listing) ==
    {VersionNum(e.name) : e \in {x \in listing : x.isdir /\ VersionPat(x.name)}}

NextVersionNumber_count(listing) == Cardinality(ScannedNumbers(listing)) + 1

\* max_n + 1 after the scan loop
NextVersionNumber(listing) == SetMax(ScannedNumbers(listing)) + 1

VersionLabel_fixed3(n) == <<"v">> \o ZeroPad(ToDigits(n % 1000), 3)

\* f'v{(max_n+1):03d}'
VersionLabel(n) == <<"v">> \o ZeroPad(ToDigits(n), 3)

\* candidate names found in a publish parent
NamePool ==
    { <<"v", "0", "0", "1">>, <<"v", "0", "0", "2">>, <<"v", "0", "0", "4">>,
      <<"V", "0", "0", "3">>, <<"v", "9", "9", "9">>, <<"v", "0", "0", "0", "7">>,
      <<"v", "0", "2">>, <<"x", "0", "0", "1">>, <<"v", "0", "0", "5">> }

EntryPool == [name : NamePool, isdir : BOOLEAN]

RECURSIVE Listings(_)
Listings(k) ==
    IF k = 0 THEN {{}}
    ELSE LET P == Listings(k - 1)
         IN P \cup {p \cup {e} : p \in P, e \in EntryPool}

UniqueNames(listing) ==
    \A a \in listing : \A b \in listing : a.name = b.name => a = b

UnsetRoot == ""
TaskRoot == "task"
DebugRoot == "Desktop/MayaDebug_Publish"
NoRoot == "none"

\* The body shared by get_publish_paths and _next_version_folder:
\* makedirs(parent) if missing, scan, format, makedirs(version_dir) if missing.
AllocateVersion ==
    LET listing == IF parentExists THEN entries ELSE {}
        label == VersionLabel(NextVersionNumber(listing))
        asDir == [name |-> label, isdir |-> TRUE]
        asFile == [name |-> label, isdir |-> FALSE]
    IN /\ Len(issued) < MaxPublishes
       /\ parentExists' = TRUE
       /\ scanned' = listing
       /\ IF asFile \in listing
          THEN \* os.makedirs(version_dir) raises FileExistsError
               /\ allocResult' = "error"
               /\ entries' = listing
               /\ issued' = issued
          ELSE /\ allocResult' = "ok"
               /\ entries' = listing \cup {asDir}
               /\ issued' = Append(issued, label)

\* get_publish_paths (26.02.03): an unset HAL_TASK_ROOT is replaced by the
\* Desktop debug folder and the allocation proceeds under it.
GetPublishPaths ==
    /\ AllocateVersion
    /\ pub_root' = (IF hal_root = UnsetRoot THEN DebugRoot ELSE hal_root)
    /\ UNCHANGED <<hal_root, rebVars, sgVars, raceVars, dupVars, nameVars,
                   redVars, jobEnvVars, sceneVars, texVars, oiioVars,
                   lodVars, pubVars>>

\* export_lookdev_with_payload_and_interface (25.12.7) up to the allocation:
\* _next_version_folder is reached only with HAL_TASK_ROOT set.
NextVersionFolder ==
    /\ hal_root # UnsetRoot
    /\ AllocateVersion
    /\ pub_root' = hal_root
    /\ UNCHANGED <<hal_root, rebVars, sgVars, raceVars, dupVars, nameVars,
                   redVars, jobEnvVars, sceneVars, texVars, oiioVars,
                   lodVars, pubVars>>

\* the same handler with HAL_TASK_ROOT unset: cmds.error raises before
\* any directory is touched.
LookdevConfigError ==
    /\ hal_root = UnsetRoot
    /\ allocResult' = "config_error"
    /\ UNCHANGED <<parentExists, entries, scanned, issued, sideVars,
                   lodVars, pubVars>>

(***************************************************************************)
(* LODPlanner: percentages are exact rationals [num, den], den a power of  *)
(* 100 (the code uses floats; rounding is not modelled)                    *)
(***************************************************************************)
RECURSIVE Pow(_, _)
Pow(b, i) == IF i = 0 THEN 1 ELSE b * Pow(b, i - 1)

Rat(n, d) == [num |-> n, den |-> d]

RMaxDen(a, b) == IF a.den >= b.den THEN a.den ELSE b.den

\* a <= b, both brought to the larger denominator
RLe(a, b) ==
    LET d == RMaxDen(a, b)
    IN a.num * (d \div a.den) <= b.num * (d \div b.den)

REq(a, b) == RLe(a, b) /\ RLe(b, a)

\* r * 100.0
RTimes100(r) ==
    IF r.den % 100 = 0 THEN Rat(r.num, r.den \div 100) ELSE Rat(r.num * 100, r.den)

\* 100.0 - r
RSubFrom100(r) == Rat(100 * r.den - r.num, r.den)

\* max(0.0, min(99.0, r))
Clamp0_99(r) ==
    LET lo == IF r.num > 99 * r.den THEN Rat(99, 1) ELSE r
    IN IF lo.num < 0 THEN Rat(0, 1) ELSE lo

\* (base_keep_percent / 100.0) ** i
KeepRatio(base, i) == Rat(Pow(base, i), Pow(100, i))

\* run_local_publish STEP 3, body of the loop for level i
LocalRemovePercent(base, i) ==
    Clamp0_99(RSubFrom100(RTimes100(KeepRatio(base, i))))

WorkerRemovePercent_prevLevel(base, extra_arg) ==
    LET lod_idx == ParseInt(extra_arg)
    IN Clamp0_99(RSubFrom100(RTimes100(KeepRatio(base, lod_idx - 1))))

\* farm worker main(), task 'lod': extra_arg is the level as text
WorkerRemovePercent(base, extra_arg) ==
    LET lod_idx == ParseInt(extra_arg)
        keep_ratio == KeepRatio(base, lod_idx)
    IN Clamp0_99(RSubFrom100(RTimes100(keep_ratio)))

NoPct == Rat(0 - 1, 1)

\* run_local_publish STEP 3: the next iteration of `for i in range(1, lod_count+1)`
LocalLodStep ==
    /\ Len(localPct) < lod_total
    /\ localPct' = Append(localPct, LocalRemovePercent(base_percent, Len(localPct) + 1))
    /\ UNCHANGED <<base_percent, lod_total, workerPct, sideVars, allocVars, pubVars>>

\* submit_geo_job("lod", f"LOD{i}", str(i)) followed by the worker's main()
WorkerLodPercent(i) ==
    /\ i \in 1..lod_total
    /\ workerPct[i] = NoPct
    /\ workerPct' = [workerPct EXCEPT ![i] = WorkerRemovePercent(base_percent, ToDigits(i))]
    /\ UNCHANGED <<base_percent, lod_total, localPct, sideVars, allocVars, pubVars>>

(***************************************************************************)
(* Build graph of one publish                                              *)
(***************************************************************************)
Task(kind, idx) == [kind |-> kind, idx |-> idx]

ExportBase == Task("export_base", 0)
TexConvert == Task("texture_convert", 0)
Proxy == Task("proxy", 0)
Lod(i) == Task("lod", i)
Assemble == Task("assemble", 0)
NoneId == Task("None", 0)

Producers == {ExportBase, TexConvert, Proxy} \cup {Lod(i) : i \in 1..MaxLod}
AllTasks == Producers \cup {Assemble}
Terminal == {"succeeded", "failed"}

File(kind, idx) == [kind |-> kind, idx |-> idx]

TexLevels == {2, 4, 10}
ShdLevels == {0} \cup TexLevels

LodName(i) == <<"LOD", i>>
NoVariant == <<"none", 0>>

NoVset == [authored |-> FALSE, variants |-> <<>>, selection |-> NoVariant, refs |-> {}]
VsetNames == {"levels", "mtl", "variant"}

Configs ==
    [has_proxy : BOOLEAN, has_lods : BOOLEAN, lod_count : 0..MaxLod,
     do_tex : BOOLEAN, tex_files : 0..MaxTex]

At(label) == [at |-> label, i |-> 0]

\* tasks the options of this publish ask for
Requested(c) ==
    {ExportBase}
      \cup (IF c.do_tex /\ c.tex_files > 0 THEN {TexConvert} ELSE {})
      \cup (IF c.has_proxy THEN {Proxy} ELSE {})
      \cup (IF c.has_lods THEN {Lod(i) : i \in 1..c.lod_count} ELSE {})

\* producers that were actually scheduled (local) or submitted (farm)
Scheduled == {t \in Producers : status[t] # "unscheduled"}

Abort == pc' = At("aborted")

(***************************************************************************)
(* LayerComposer: variant sets                                             *)
(***************************************************************************)
\* rootPrim.GetVariantSets().AddVariantSet(name)
AddVariantSet == [NoVset EXCEPT !.authored = TRUE]

\* vset.SetVariantSelection(name)
SetVariantSelection(vs, name) == [vs EXCEPT !.selection = name]

\* vset.AddVariant(name); vset.SetVariantSelection(name);
\* with vset.GetVariantEditContext(): <site>.GetReferences().AddReference(layer)
AuthorVariant(vs, name, site, layer) ==
    [vs EXCEPT !.variants = Append(@, name),
               !.selection = name,
               !.refs = @ \cup {[variant |-> name, site |-> site, layer |-> layer]}]

AuthorVariantCleared_unscoped(vs, name, site, layer) ==
    [vs EXCEPT !.variants = Append(@, name),
               !.selection = name,
               !.refs = @ \cup {[variant |-> v, site |-> site, layer |-> layer]
                                   : v \in {vs.variants[k] : k \in 1..Len(vs.variants)}
                                           \cup {name}}]

\* as AuthorVariant, with prim.GetReferences().ClearReferences() first
AuthorVariantCleared(vs, name, site, layer) ==
    [vs EXCEPT !.variants = Append(@, name),
               !.selection = name,
               !.refs = {r \in @ : ~(r.variant = name /\ r.site = site)}
                          \cup {[variant |-> name, site |-> site, layer |-> layer]}]

FinishVariantSet_keepLast(vs) == vs

\* the closing vset.SetVariantSelection("LOD0")
FinishVariantSet(vs) == SetVariantSelection(vs, LodName(0))

RECURSIVE AddGeoLods(_, _, _, _)
AddGeoLods(vs, fs, i, n) ==
    IF i > n THEN vs
    ELSE IF File("geoLOD", i) \notin fs THEN AddGeoLods(vs, fs, i + 1, n)
    ELSE AddGeoLods(AuthorVariant(vs, LodName(i), "owner", File("geoLOD", i)),
                    fs, i + 1, n)

\* addGeoVariantsIntoGeoUsd: "levels" on the root prim of geo.usdc
AddGeoVariantsIntoGeoUsd(fs, lod_count) ==
    IF File("geo", 0) \notin fs THEN NoVset
    ELSE FinishVariantSet(
             AddGeoLods(AuthorVariant(AddVariantSet, LodName(0), "owner",
                                      File("render", 0)),
                        fs, 1, lod_count))

ShdOrder == <<0, 2, 4, 10>>

RECURSIVE AddShdLods_onOwner(_, _, _)
AddShdLods_onOwner(vs, fs, k) ==
    IF k > Len(ShdOrder) THEN vs
    ELSE IF File("shdLOD", ShdOrder[k]) \notin fs THEN AddShdLods_onOwner(vs, fs, k + 1)
    ELSE AddShdLods_onOwner(AuthorVariant(vs, LodName(ShdOrder[k]), "owner",
                                          File("shdCLEAN", ShdOrder[k])),
                            fs, k + 1)

RECURSIVE AddShdLods(_, _, _)
AddShdLods(vs, fs, k) ==
    IF k > Len(ShdOrder) THEN vs
    ELSE IF File("shdLOD", ShdOrder[k]) \notin fs THEN AddShdLods(vs, fs, k + 1)
    ELSE AddShdLods(AuthorVariant(vs, LodName(ShdOrder[k]), "mtl",
                                  File("shdCLEAN", ShdOrder[k])),
                    fs, k + 1)

\* addShdVariantsIntoShdUsd: "mtl" on the root prim of shd.usdc
AddShdVariantsIntoShdUsd(fs) == FinishVariantSet(AddShdLods(AddVariantSet, fs, 1))

RECURSIVE AddWrapLods(_, _, _)
AddWrapLods(vs, i, n) ==
    IF i > n THEN vs
    ELSE AddWrapLods(AuthorVariantCleared(vs, LodName(i), "owner", File("lod_wrap", i)),
                     i + 1, n)

\* 25.12.7 _create_variant_layer(top_name, payload_path, lod_wrap_paths, variant_path)
CreateVariantLayer(nWraps) ==
    FinishVariantSet(
        AddWrapLods(AuthorVariantCleared(AddVariantSet, LodName(0), "owner",
                                         File("payload", 0)),
                    1, nWraps))

\* files written by STEP 5-8 / task 'assemble'
AssembleFiles(fs, c) ==
    fs \cup {File("geo", 0), File("payload", 0), File("top", 0)}
       \cup (IF c.do_tex
             THEN {File("shd", 0)}
                    \cup {File("shdCLEAN", k) : k \in {x \in ShdLevels : File("shdLOD", x) \in fs}}
             ELSE {})

\* variant sets authored by STEP 5-6 / task 'assemble'
AssembleVsets(fs, c) ==
    [n \in VsetNames |->
        IF n = "levels" THEN AddGeoVariantsIntoGeoUsd(fs \cup {File("geo", 0)}, c.lod_count)
        ELSE IF n = "mtl" /\ c.do_tex THEN AddShdVariantsIntoShdUsd(fs)
        ELSE vsets[n]]

(***************************************************************************)
(* LOD duplicates: what the exported mesh of each level was reduced from   *)
(***************************************************************************)
\* a duplicate of the original source, before any reduction
FreshDuplicate == <<>>

\* _reduce_with_cleanup on every mesh parent of the duplicate
Reduce(dup, percent) == Append(dup, percent)

\* 26.02.03 _create_single_lod_usd: cmds.duplicate(src), reduce, export
CreateSingleLodUsd(percent) == Reduce(FreshDuplicate, percent)

\* 25.12.7 _create_lod_usd: one cmds.duplicate(src) before the loop; every
\* iteration reduces that duplicate and exports it
RECURSIVE CreateLodUsd(_, _, _, _)
CreateLodUsd(lod_count, per_step_percent, i, lod_dup) ==
    IF i > MaxLod THEN <<>>
    ELSE IF i > lod_count
         THEN <<FreshDuplicate>>
                  \o CreateLodUsd(lod_count, per_step_percent, i + 1, lod_dup)
         ELSE LET reduced == Reduce(lod_dup, per_step_percent)
              IN <<reduced>>
                     \o CreateLodUsd(lod_count, per_step_percent, i + 1, reduced)

(***************************************************************************)
(* Output paths under the version directory (get_publish_paths and the     *)
(* file names the writers build), as sequences of path pieces              *)
(***************************************************************************)
\* top_node.split('|')[-1]: the name of the selected top node
TopNames == {"hero", "render"}

NoName == ""

\* f"{variant_type}_{suffix}{lod_index}.usdc"
LodFileName(variant_type, suffix, lod_index) ==
    <<variant_type, "_", suffix>> \o ToDigits(lod_index) \o <<".usdc">>

\* the path of an artifact, relative to version_dir
PathOf(f, top) ==
    IF f.kind = "top" THEN <<top, ".usdc">>
    ELSE IF f.kind = "geoLOD"
         THEN <<"geoVariants", "/">> \o LodFileName("geoVariant", "geoLOD", f.idx)
    ELSE IF f.kind = "shdLOD"
         THEN <<"shdVariants", "/">> \o LodFileName("shdVariant", "shdLOD", f.idx)
    ELSE IF f.kind = "shdCLEAN"
         THEN <<"shdVariants", "/", "shdVariant", "_", "LOD">>
                  \o ToDigits(f.idx) \o <<"_CLEAN", ".usdc">>
    ELSE IF f.kind = "texLOD"
         THEN <<"..", "/", "textures", "/">> \o ToDigits(f.idx)
    ELSE <<f.kind, ".usdc">>

\* the task whose code writes an artifact
WriterOf(f) ==
    IF f.kind = "render" THEN ExportBase
    ELSE IF f.kind = "proxy" THEN Proxy
    ELSE IF f.kind = "geoLOD" THEN Lod(f.idx)
    ELSE IF f.kind = "texLOD" THEN TexConvert
    ELSE Assemble

\* every write so far: who wrote which path
Written == {[task |-> WriterOf(f), path |-> PathOf(f, top_name)] : f \in files}

(***************************************************************************)
(* run_local_publish (26.02.03): one control thread, steps in code order   *)
(***************************************************************************)
SetStatus(t, st) == status' = [status EXCEPT ![t] = st]

\* auto_save, selection check, get_publish_paths; the allocation is made
\* before the try block, so its error leaves the handler
LocalStart ==
    /\ mode = "local" /\ pc = At("start")
    /\ AllocateVersion
    /\ IF allocResult' = "error"
       THEN Abort /\ UNCHANGED status
       ELSE /\ pc' = At("tex")
            /\ status' = [t \in AllTasks |->
                            IF t \in Requested(cfg) \cup {Assemble}
                            THEN "pending" ELSE "unscheduled"]
    /\ UNCHANGED <<sideVars, lodVars, mode, cfg, files, outcome, deps,
                   assembly_dependencies, texPending, payloadSubs,
                   payloadInputs, vsets>>

\* STEP 0: tex_proc.run_local(tex_files) submits one future per source path
LocalTexStart ==
    /\ mode = "local" /\ pc = At("tex")
    /\ IF TexConvert \in Requested(cfg)
       THEN /\ texPending' = 1..cfg.tex_files
            /\ SetStatus(TexConvert, "running")
            /\ pc' = At("tex_wait")
       ELSE /\ pc' = At("export")
            /\ UNCHANGED <<texPending, status>>
    /\ UNCHANGED <<sideVars, allocVars, lodVars, mode, cfg, files, outcome, deps,
                   assembly_dependencies, payloadSubs, payloadInputs, vsets>>

\* convert_texture_task in a pool thread: it returns (ok, msg) pairs, and
\* run_local swallows whatever future.result() raises
LocalTexWorker(k) ==
    /\ mode = "local" /\ pc = At("tex_wait")
    /\ k \in texPending
    /\ texPending' = texPending \ {k}
    /\ \E ok \in BOOLEAN :
          /\ files' = IF ok THEN files \cup {File("texLOD", k)} ELSE files
          /\ outcome' = IF ok \/ outcome[TexConvert] = "raised" THEN outcome
                        ELSE [outcome EXCEPT ![TexConvert] = "raised"]
    /\ UNCHANGED <<sideVars, allocVars, lodVars, mode, cfg, pc, status, deps,
                   assembly_dependencies, payloadSubs, payloadInputs, vsets>>

\* leaving `with ThreadPoolExecutor(...)`: every future has completed
LocalTexJoin ==
    /\ mode = "local" /\ pc = At("tex_wait")
    /\ texPending = {}
    /\ SetStatus(TexConvert, IF outcome[TexConvert] = "raised" THEN "failed" ELSE "succeeded")
    /\ outcome' = IF outcome[TexConvert] = "none"
                  THEN [outcome EXCEPT ![TexConvert] = "ok"] ELSE outcome
    /\ pc' = At("export")
    /\ UNCHANGED <<sideVars, allocVars, lodVars, mode, cfg, files, deps,
                   assembly_dependencies, texPending, payloadSubs,
                   payloadInputs, vsets>>

\* ---- the scene around the proxy export ----
Absent == "absent"
SceneStart == [src |-> "top", dup |-> Absent]

\* _safe_rename: a node that does not exist is left alone
SafeRename(s, node, new_name) ==
    IF s[node] = Absent THEN s ELSE [s EXCEPT ![node] = new_name]

\* cmds.delete guarded by cmds.objExists
DeleteIfExists(s, node) == [s EXCEPT ![node] = Absent]

\* _duplicate_and_reduce leaves a duplicate named <top>_proxy; the caller
\* renames the source to <top>_origTmp and the duplicate to <top>
ProxySwapped(s) ==
    LET dup == [s EXCEPT !.dup = "top_proxy"]
        src_tmp == SafeRename(dup, "src", "top_origTmp")
    IN SafeRename(src_tmp, "dup", "top")

\* run_local_publish STEP 2 and the farm worker: the export sits in a try
\* whose finally deletes the duplicate and renames the source back
ProxyStepScene(s, o) ==
    SafeRename(DeleteIfExists(ProxySwapped(s), "dup"), "src", "top")

\* 25.12.7: straight-line code, the restore follows the export
ProxyStepSceneMel(s, o) ==
    IF o = "raised"
    THEN ProxySwapped(s)
    ELSE LET proxy_restored == SafeRename(ProxySwapped(s), "dup", "top_proxy")
             src_back == SafeRename(proxy_restored, "src", "top")
         IN DeleteIfExists(src_back, "dup")

ExportOutcomes == {"ok", "raised", "nofile"}

\* STEP 1: arnoldExportAss(render_path); an exception reaches the outer
\* except, a missing file is skipped by `if os.path.exists(render_path)`
LocalExportBase ==
    /\ mode = "local" /\ pc = At("export")
    /\ \E o \in ExportOutcomes :
          /\ outcome' = [outcome EXCEPT ![ExportBase] = o]
          /\ files' = IF o = "ok" THEN files \cup {File("render", 0)} ELSE files
          /\ SetStatus(ExportBase, IF o = "ok" THEN "succeeded" ELSE "failed")
          /\ IF o = "raised" THEN Abort ELSE pc' = At("proxy")
    /\ UNCHANGED <<sideVars, allocVars, lodVars, mode, cfg, deps, assembly_dependencies,
                   texPending, payloadSubs, payloadInputs, vsets>>

\* STEP 2: the proxy export sits in try/finally with no except clause
LocalProxy ==
    /\ mode = "local" /\ pc = At("proxy")
    /\ IF ~cfg.has_proxy
       THEN pc' = At("lod") /\ UNCHANGED <<outcome, files, status, scene>>
       ELSE \E o \in ExportOutcomes :
              /\ outcome' = [outcome EXCEPT ![Proxy] = o]
              /\ files' = IF o = "ok" THEN files \cup {File("proxy", 0)} ELSE files
              /\ scene' = ProxyStepScene(scene, o)
              /\ SetStatus(Proxy, IF o = "ok" THEN "succeeded" ELSE "failed")
              /\ pc' = IF o = "raised" THEN At("aborted") ELSE At("lod")
    /\ UNCHANGED <<rebVars, sgVars, raceVars, dupVars, nameVars, envVars, redVars,
                   jobEnvVars, texVars, oiioVars, allocVars, lodVars, mode, cfg, deps, assembly_dependencies,
                   texPending, payloadSubs, payloadInputs, vsets>>

\* STEP 3: one iteration of the LOD loop; _create_single_lod_usd catches
\* the exporter's exception and returns
LocalLod ==
    /\ mode = "local" /\ pc.at = "lod"
    /\ LET i == pc.i + 1
       IN IF ~cfg.has_lods \/ i > cfg.lod_count
          THEN pc' = At("shd") /\ UNCHANGED <<outcome, files, status, reductions>>
          ELSE \E o \in ExportOutcomes :
                 /\ outcome' = [outcome EXCEPT ![Lod(i)] = o]
                 /\ files' = IF o = "ok" THEN files \cup {File("geoLOD", i)} ELSE files
                 /\ reductions' =
                        IF o = "ok"
                        THEN [reductions EXCEPT ![i] =
                                 CreateSingleLodUsd(LocalRemovePercent(base_percent, i))]
                        ELSE reductions
                 /\ SetStatus(Lod(i), IF o = "ok" THEN "succeeded" ELSE "failed")
                 /\ pc' = [at |-> "lod", i |-> i]
    /\ UNCHANGED <<rebVars, sgVars, raceVars, nameVars, envVars, redVars, jobEnvVars, sceneVars, texVars, oiioVars, allocVars, lodVars, mode, cfg, deps,
                   assembly_dependencies, texPending, payloadSubs,
                   payloadInputs, vsets>>

\* shader variant exports for LOD 0, 2, 4, 10: each one that fails is
\* caught inside _create_single_lod_usd and leaves no file
ShdVariantExports(fs, done) == fs \cup {File("shdLOD", k) : k \in done}

\* STEP 4
LocalShd ==
    /\ mode = "local" /\ pc = At("shd")
    /\ IF cfg.do_tex
       THEN \E done \in SUBSET ShdLevels : files' = ShdVariantExports(files, done)
       ELSE UNCHANGED files
    /\ pc' = At("assemble")
    /\ UNCHANGED <<sideVars, allocVars, lodVars, mode, cfg, outcome, status, deps,
                   assembly_dependencies, texPending, payloadSubs,
                   payloadInputs, vsets>>

\* STEP 5-8: geo assembly, shader assembly, payload, bindings, top interface
LocalAssemble ==
    /\ mode = "local" /\ pc = At("assemble")
    /\ files' = AssembleFiles(files, cfg)
    /\ vsets' = AssembleVsets(files, cfg)
    /\ \E n \in TopNames : top_name' = n
    /\ SetStatus(Assemble, "succeeded")
    /\ pc' = At("done")
    /\ UNCHANGED <<rebVars, sgVars, raceVars, dupVars, envVars, redVars, jobEnvVars, sceneVars, texVars, oiioVars, allocVars, lodVars, mode, cfg,
                   outcome, deps, assembly_dependencies, texPending,
                   payloadSubs, payloadInputs>>

(***************************************************************************)
(* run_deadline_publish (26.02.03): the submission chain, the scheduler    *)
(* and the farm workers (mayaUsdDeadlineJobs.main)                         *)
(***************************************************************************)
\* DeadlineSubmitter.submit_job: a job id parsed from "JobID=", None when no
\* id is printed, RuntimeError when deadlinecommand cannot be run
SubmitResults == {"id", "none", "raise"}

Range(seq) == {seq[k] : k \in 1..Len(seq)}

AssembleDeps_exportOnly(dependency_ids) == {dependency_ids[1]}

AssembleDeps_dropLast(dependency_ids) ==
    {dependency_ids[k] : k \in 1..(Len(dependency_ids) - 1)}

\* submit_assemble_job: JobDependencies = ",".join(dependency_ids)
AssembleDeps(dependency_ids) == Range(dependency_ids)

FarmStart ==
    /\ mode = "farm" /\ pc = At("start")
    /\ AllocateVersion
    /\ IF allocResult' = "error" THEN Abort ELSE pc' = At("sub_export")
    /\ UNCHANGED <<sideVars, lodVars, mode, cfg, files, outcome, status, deps,
                   assembly_dependencies, texPending, payloadSubs,
                   payloadInputs, vsets>>

\* 1. Export Base: the returned id is appended even when it is None
FarmSubmitExport ==
    /\ mode = "farm" /\ pc = At("sub_export")
    /\ \E r \in SubmitResults :
          /\ status' = IF r = "id" THEN [status EXCEPT ![ExportBase] = "pending"] ELSE status
          /\ assembly_dependencies' =
                IF r = "id" THEN Append(assembly_dependencies, ExportBase)
                ELSE IF r = "none" THEN Append(assembly_dependencies, NoneId)
                ELSE assembly_dependencies
          /\ IF r = "raise" THEN Abort ELSE pc' = At("sub_oiio")
    /\ UNCHANGED <<sideVars, allocVars, lodVars, mode, cfg, files, outcome, deps,
                   texPending, payloadSubs, payloadInputs, vsets>>

\* an optional producer: appended only when an id came back
SubmitOptional(t, next) ==
    \E r \in SubmitResults :
       /\ status' = IF r = "id" THEN [status EXCEPT ![t] = "pending"] ELSE status
       /\ assembly_dependencies' =
             IF r = "id" THEN Append(assembly_dependencies, t) ELSE assembly_dependencies
       /\ IF r = "raise" THEN Abort ELSE pc' = next

\* 2. OIIO: submit_oiio_job returns None without submitting when the scene
\* has no texture tiles
FarmSubmitOiio ==
    /\ mode = "farm" /\ pc = At("sub_oiio")
    /\ IF cfg.do_tex /\ cfg.tex_files > 0
       THEN SubmitOptional(TexConvert, At("sub_proxy"))
       ELSE pc' = At("sub_proxy") /\ UNCHANGED <<status, assembly_dependencies>>
    /\ UNCHANGED <<sideVars, allocVars, lodVars, mode, cfg, files, outcome, deps,
                   texPending, payloadSubs, payloadInputs, vsets>>

\* 3. Proxy
FarmSubmitProxy ==
    /\ mode = "farm" /\ pc = At("sub_proxy")
    /\ IF cfg.has_proxy
       THEN SubmitOptional(Proxy, At("sub_lod"))
       ELSE pc' = At("sub_lod") /\ UNCHANGED <<status, assembly_dependencies>>
    /\ UNCHANGED <<sideVars, allocVars, lodVars, mode, cfg, files, outcome, deps,
                   texPending, payloadSubs, payloadInputs, vsets>>

\* 4. Geo LODs: one iteration of the fan-out loop
FarmSubmitLod ==
    /\ mode = "farm" /\ pc.at = "sub_lod"
    /\ LET i == pc.i + 1
       IN IF ~cfg.has_lods \/ i > cfg.lod_count
          THEN pc' = At("sub_assemble") /\ UNCHANGED <<status, assembly_dependencies>>
          ELSE SubmitOptional(Lod(i), [at |-> "sub_lod", i |-> i])
    /\ UNCHANGED <<sideVars, allocVars, lodVars, mode, cfg, files, outcome, deps,
                   texPending, payloadSubs, payloadInputs, vsets>>

\* 5. Assemble: ",".join raises TypeError on a None element
FarmSubmitAssemble ==
    /\ mode = "farm" /\ pc = At("sub_assemble")
    /\ IF NoneId \in Range(assembly_dependencies)
       THEN Abort /\ UNCHANGED <<status, deps>>
       ELSE \E r \in SubmitResults :
              /\ status' = IF r = "id" THEN [status EXCEPT ![Assemble] = "pending"] ELSE status
              /\ deps' = IF r = "id"
                         THEN [deps EXCEPT ![Assemble] = AssembleDeps(assembly_dependencies)]
                         ELSE deps
              /\ IF r = "raise" THEN Abort ELSE pc' = At("submitted")
    /\ UNCHANGED <<sideVars, allocVars, lodVars, mode, cfg, files, outcome,
                   assembly_dependencies, texPending, payloadSubs,
                   payloadInputs, vsets>>

\* the farm starts a queued job once every job named in its
\* JobDependencies has reached a terminal state
SchedStart(t) ==
    /\ mode = "farm"
    /\ status[t] = "pending"
    /\ \A d \in deps[t] : status[d] \in Terminal
    /\ SetStatus(t, "running")
    /\ UNCHANGED <<sideVars, allocVars, lodVars, mode, cfg, pc, files, outcome, deps,
                   assembly_dependencies, texPending, payloadSubs,
                   payloadInputs, vsets>>

WorkerOutcomes == ExportOutcomes \cup {"crashed"}

\* main() for export_base, proxy and lod: the exporter's exception is caught
\* and printed ("raised"), a missing file is skipped; the process itself can
\* still die before that (scene open, duplicate), which fails the job
FarmWorkerProducer(t, out) ==
    /\ mode = "farm"
    /\ t \in Producers \ {TexConvert}
    /\ status[t] = "running"
    /\ \E o \in WorkerOutcomes :
          /\ outcome' = [outcome EXCEPT ![t] = o]
          /\ files' = IF o = "ok" THEN files \cup {out} ELSE files
          /\ reductions' =
                 IF o = "ok" /\ t.kind = "lod"
                 THEN [reductions EXCEPT ![t.idx] =
                          CreateSingleLodUsd(
                              WorkerRemovePercent(base_percent, ToDigits(t.idx)))]
                 ELSE reductions
          /\ scene' = IF t.kind = "proxy" /\ o # "crashed"
                       THEN ProxyStepScene(scene, o)
                       ELSE scene
          /\ SetStatus(t, IF o = "crashed" THEN "failed" ELSE "succeeded")
    /\ UNCHANGED <<rebVars, sgVars, raceVars, nameVars, envVars, redVars,
                   jobEnvVars, texVars, oiioVars, allocVars, lodVars, mode, cfg, pc, deps,
                   assembly_dependencies, texPending, payloadSubs,
                   payloadInputs, vsets>>

FarmWorkerExportBase == FarmWorkerProducer(ExportBase, File("render", 0))

FarmWorkerProxy == FarmWorkerProducer(Proxy, File("proxy", 0))

FarmWorkerLod(i) == FarmWorkerProducer(Lod(i), File("geoLOD", i))

\* the OIIO conversion job (OIIO_process_LOD_Tasks.py): a failed conversion
\* is caught and printed, an unreadable manifest ends the process
FarmWorkerOiio ==
    /\ mode = "farm"
    /\ status[TexConvert] = "running"
    /\ \E o \in {"ok", "raised", "crashed"} :
          /\ outcome' = [outcome EXCEPT ![TexConvert] = o]
          /\ files' = IF o = "ok"
                      THEN files \cup {File("texLOD", k) : k \in 1..cfg.tex_files}
                      ELSE files
          /\ SetStatus(TexConvert, IF o = "crashed" THEN "failed" ELSE "succeeded")
    /\ UNCHANGED <<sideVars, allocVars, lodVars, mode, cfg, pc, deps,
                   assembly_dependencies, texPending, payloadSubs,
                   payloadInputs, vsets>>

\* main() for assemble: geo assembly, shader variants, payload, top
FarmWorkerAssemble ==
    /\ mode = "farm"
    /\ status[Assemble] = "running"
    /\ \E done \in SUBSET ShdLevels :
          /\ cfg.do_tex \/ done = {}
          /\ LET fs == IF cfg.do_tex THEN ShdVariantExports(files, done) ELSE files
             IN /\ files' = AssembleFiles(fs, cfg)
                /\ vsets' = AssembleVsets(fs, cfg)
    /\ \E n \in TopNames : top_name' = n
    /\ SetStatus(Assemble, "succeeded")
    /\ UNCHANGED <<rebVars, sgVars, raceVars, dupVars, envVars, redVars, jobEnvVars, sceneVars, texVars, oiioVars, allocVars, lodVars, mode, cfg,
                   pc, outcome, deps, assembly_dependencies, texPending,
                   payloadSubs, payloadInputs>>

(***************************************************************************)
(* export_lookdev_with_payload_and_interface (25.12.7)                     *)
(***************************************************************************)
MetaLayer == File("meta", 0)
ShdLayer == File("shd", 0)

\* proxy_path after step 2: `proxy_path = shd_path` when the proxy is off
ProxyPath(c) == IF c.has_proxy THEN File("proxy", 0) ELSE ShdLayer

\* _write_payload_contents_layer: lyr.subLayerPaths = [proxy_path, shd_path]
WritePayloadContentsLayer(proxy_path, shd_path) == <<proxy_path, shd_path>>

PrependMeta_append(subs, meta) ==
    IF meta \in Range(subs) THEN subs ELSE Append(subs, meta)

\* _author_meta_and_fix_materials, lines 326-331:
\* if meta_id_norm not in subs_norm: subs.insert(0, meta_id_norm)
PrependMeta(subs, meta) ==
    IF meta \in Range(subs) THEN subs ELSE <<meta>> \o subs

LookdevStart ==
    /\ mode = "lookdev" /\ pc = At("start")
    /\ AllocateVersion
    /\ IF allocResult' = "error"
       THEN Abort /\ UNCHANGED status
       ELSE /\ pc' = At("ld_export")
            /\ status' = [t \in AllTasks |->
                            IF t \in Requested(cfg) \cup {Assemble}
                            THEN "pending" ELSE "unscheduled"]
    /\ UNCHANGED <<sideVars, lodVars, mode, cfg, files, outcome, deps,
                   assembly_dependencies, texPending, payloadSubs,
                   payloadInputs, vsets>>

\* 1) shd.usdc: the exporter is called with no try around it
LookdevExport ==
    /\ mode = "lookdev" /\ pc = At("ld_export")
    /\ \E o \in ExportOutcomes :
          /\ outcome' = [outcome EXCEPT ![ExportBase] = o]
          /\ files' = IF o = "ok" THEN files \cup {ShdLayer} ELSE files
          /\ SetStatus(ExportBase, IF o = "ok" THEN "succeeded" ELSE "failed")
          /\ IF o = "raised" THEN Abort ELSE pc' = At("ld_proxy")
    /\ UNCHANGED <<sideVars, allocVars, lodVars, mode, cfg, deps, assembly_dependencies,
                   texPending, payloadSubs, payloadInputs, vsets>>

\* 2) optional proxy.usdc
LookdevProxy ==
    /\ mode = "lookdev" /\ pc = At("ld_proxy")
    /\ IF ~cfg.has_proxy
       THEN pc' = At("ld_payload") /\ UNCHANGED <<outcome, files, status, scene>>
       ELSE \E o \in ExportOutcomes :
              /\ outcome' = [outcome EXCEPT ![Proxy] = o]
              /\ files' = IF o = "ok" THEN files \cup {File("proxy", 0)} ELSE files
              /\ scene' = ProxyStepSceneMel(scene, o)
              /\ SetStatus(Proxy, IF o = "ok" THEN "succeeded" ELSE "failed")
              /\ IF o = "raised" THEN Abort ELSE pc' = At("ld_payload")
    /\ UNCHANGED <<rebVars, sgVars, raceVars, dupVars, nameVars, envVars, redVars,
                   jobEnvVars, texVars, oiioVars, allocVars, lodVars, mode, cfg, deps, assembly_dependencies,
                   texPending, payloadSubs, payloadInputs, vsets>>

HasDuplicates(seq) == \E a \in 1..Len(seq) : \E b \in 1..Len(seq) : a # b /\ seq[a] = seq[b]

\* 3) payload.usdc. With the proxy off both arguments are shd_path; whether
\* the layer library stores a sublayer list with a repeated path or rejects
\* the assignment with an error is not decided by this code, so both happen.
LookdevPayload ==
    /\ mode = "lookdev" /\ pc = At("ld_payload")
    /\ payloadInputs' = <<ProxyPath(cfg), ShdLayer>>
    /\ \E stored \in BOOLEAN :
          /\ stored \/ HasDuplicates(WritePayloadContentsLayer(ProxyPath(cfg), ShdLayer))
          /\ IF stored
             THEN /\ payloadSubs' = WritePayloadContentsLayer(ProxyPath(cfg), ShdLayer)
                  /\ files' = files \cup {File("payload", 0)}
                  /\ pc' = At("ld_meta")
             ELSE Abort /\ UNCHANGED <<payloadSubs, files>>
    /\ UNCHANGED <<sideVars, allocVars, lodVars, mode, cfg, outcome, status, deps,
                   assembly_dependencies, texPending, vsets>>

\* 4) meta.usdc, prepended into the payload
LookdevMeta ==
    /\ mode = "lookdev" /\ pc = At("ld_meta")
    /\ payloadSubs' = PrependMeta(payloadSubs, MetaLayer)
    /\ files' = files \cup {MetaLayer}
    /\ pc' = At("ld_lods")
    /\ UNCHANGED <<sideVars, allocVars, lodVars, mode, cfg, outcome, status, deps,
                   assembly_dependencies, texPending, payloadInputs, vsets>>

\* 5) LOD fragments, their wraps and variant.usdc; _create_lod_usd has no
\* try around the exporter and opens every file it expects
LookdevLods ==
    /\ mode = "lookdev" /\ pc = At("ld_lods")
    /\ IF ~(cfg.has_lods /\ cfg.lod_count > 0)
       THEN pc' = At("ld_top")
            /\ UNCHANGED <<outcome, files, status, vsets, reductions>>
       ELSE \E o \in {"ok", "raised"} :
              /\ outcome' = [t \in AllTasks |->
                               IF t \in {Lod(i) : i \in 1..cfg.lod_count} THEN o
                               ELSE outcome[t]]
              /\ status' = [t \in AllTasks |->
                               IF t \in {Lod(i) : i \in 1..cfg.lod_count}
                               THEN (IF o = "ok" THEN "succeeded" ELSE "failed")
                               ELSE status[t]]
              /\ IF o = "raised"
                 THEN Abort /\ UNCHANGED <<files, vsets, reductions>>
                 ELSE /\ reductions' =
                            [i \in 1..MaxLod |->
                                CreateLodUsd(cfg.lod_count,
                                             Rat(base_percent, 1), 1, <<>>)[i]]
                      /\ files' = files \cup {File("variant", 0)}
                                    \cup {File("geoLOD", i) : i \in 1..cfg.lod_count}
                                    \cup {File("lod_wrap", i) : i \in 1..cfg.lod_count}
                      /\ vsets' = [vsets EXCEPT !["variant"] = CreateVariantLayer(cfg.lod_count)]
                      /\ pc' = At("ld_top")
    /\ UNCHANGED <<rebVars, sgVars, raceVars, nameVars, envVars, redVars, jobEnvVars, sceneVars, texVars, oiioVars, allocVars, lodVars, mode, cfg, deps,
                   assembly_dependencies, texPending, payloadSubs, payloadInputs>>

\* 6) the top interface document
LookdevTop ==
    /\ mode = "lookdev" /\ pc = At("ld_top")
    /\ files' = files \cup {File("top", 0)}
    /\ SetStatus(Assemble, "succeeded")
    /\ pc' = At("done")
    /\ UNCHANGED <<sideVars, allocVars, lodVars, mode, cfg, outcome, deps,
                   assembly_dependencies, texPending, payloadSubs,
                   payloadInputs, vsets>>

(***************************************************************************)
(* LayerComposer: the composition arcs of the documents written so far     *)
(***************************************************************************)
Arc(doc, layer) == [doc |-> doc, layer |-> layer]

\* 26.02.03 create_payload_file: AddReference("./shd.usdc"), ("./geo.usdc");
\* 25.12.7 _write_payload_contents_layer: lyr.subLayerPaths
PayloadArcs ==
    IF File("payload", 0) \notin files THEN {}
    ELSE IF mode = "lookdev"
         THEN {Arc(File("payload", 0), payloadSubs[k]) : k \in DOMAIN payloadSubs}
         ELSE {Arc(File("payload", 0), File("shd", 0)),
               Arc(File("payload", 0), File("geo", 0))}

\* the document that carries each variant set
VsetDoc(n) ==
    IF n = "levels" THEN File("geo", 0)
    ELSE IF n = "mtl" THEN File("shd", 0)
    ELSE File("variant", 0)

\* referenceToVariantEditContext / _create_variant_layer: AddReference(layer)
VariantArcs ==
    UNION {{Arc(VsetDoc(n), r.layer) : r \in vsets[n].refs} : n \in VsetNames}

\* geoUsdExport: geoLayer.subLayerPaths.append(rel_proxy) when proxy.usdc exists
GeoArcs ==
    IF mode # "lookdev" /\ File("geo", 0) \in files /\ File("proxy", 0) \in files
    THEN {Arc(File("geo", 0), File("proxy", 0))}
    ELSE {}

\* _write_interface_top_layer: AddPayload(payload or variant document)
TopArcs ==
    IF File("top", 0) \notin files THEN {}
    ELSE IF mode = "lookdev" /\ File("variant", 0) \in files
         THEN {Arc(File("top", 0), File("variant", 0))}
         ELSE {Arc(File("top", 0), File("payload", 0))}

Arcs == PayloadArcs \cup VariantArcs \cup GeoArcs \cup TopArcs

(***************************************************************************)
(* MaterialRebinder: 25.12.7 _author_meta_and_fix_materials                *)
(***************************************************************************)
\* a material prim: /mtl/<name> or /lib/<name> in a fragment, or
\* /<top>/mtl/<name> (scope "top")
MatNames == { <<"A">>, <<"B">>, <<"A", "_", "r", "1">> }

MatPool ==
    [scope : {"mtl"}, name : MatNames]
      \cup {[scope |-> "lib", name |-> <<"A">>], [scope |-> "top", name |-> <<"A">>]}

\* prim.GetPath().HasPrefix(top_path)
HasTopPrefix(path) == path.scope = "top"

\* mtl_parent.AppendChild(name)
CopyPath(name) == [scope |-> "top", name |-> name]

Sites == {"mesh", "subset", "collection"}
NoTarget == [scope |-> "none", name |-> <<>>]
NoOverride == [target |-> NoTarget, strength |-> "none"]
EmptyLayer == [mats |-> {}, binds |-> [s \in Sites |-> NoOverride]]

CreateNew_reopen(layer) == layer

\* Sdf.Layer.CreateNew(meta_out_path): a new, empty layer saved over the file
CreateNew(layer) == EmptyLayer

\* f"{base}_r{i}"
Suffixed(base, i) == base \o <<"_", "r">> \o ToDigits(i)

RECURSIVE NextFree(_, _, _)
NextFree(base, taken, i) ==
    IF Suffixed(base, i) \in taken THEN NextFree(base, taken, i + 1)
    ELSE Suffixed(base, i)

DstName_noSuffix(base, taken) == base

\* dst = base; i = 1; while meta_layer.GetPrimAtPath(dst): dst = base_r{i}; i += 1
DstName(base, taken) == IF base \in taken THEN NextFree(base, taken, 1) ELSE base

\* the copy loop over stg.TraverseAll(); acc is the set of specs copied so far
RECURSIVE CopyPhase(_, _, _)
CopyPhase(mats, k, acc) ==
    IF k > Len(mats) THEN acc
    ELSE IF HasTopPrefix(mats[k]) THEN CopyPhase(mats, k + 1, acc)
    ELSE CopyPhase(mats, k + 1,
                   acc \cup {[name |-> DstName(mats[k].name, {c.name : c \in acc}),
                              from |-> mats[k]]})

\* mat_remap[prim.GetPath()] = dst
Remap(copies) ==
    [m \in {c.from : c \in copies} |->
        CopyPath((CHOOSE c \in copies : c.from = m).name)]

\* the binding a site has in the composed stage: the meta override wins
Composed(layer, base, site) ==
    IF layer.binds[site] # NoOverride THEN layer.binds[site]
    ELSE [target |-> base[site], strength |-> "weakerThanDescendants"]

\* new = mat_remap.get(old, old)
RemapGet(remap, old) == IF old \in DOMAIN remap THEN remap[old] ELSE old

\* rel.SetTargets([new]); _set_strength_stronger for direct and subset
\* bindings, the collection relationship only gets its targets rewritten
Rebound(layer, base, remap, site) ==
    LET cur == Composed(layer, base, site)
    IN IF cur.target = NoTarget THEN layer.binds[site]
       ELSE [target |-> RemapGet(remap, cur.target),
             strength |-> IF site = "collection" THEN cur.strength
                          ELSE "strongerThanDescendants"]

BoundTargets(layer, base) == [s \in Sites |-> Composed(layer, base, s)]

\* one run of _author_meta_and_fix_materials on the payload; CreateNew
\* raises when the layer of an earlier run is still registered
AuthorMetaAndFixMaterials ==
    /\ Len(passLog) < MaxPasses
    /\ \E created \in BOOLEAN :
          /\ created \/ Len(passLog) > 0
          /\ IF created
             THEN LET fresh == CreateNew(meta_layer)
                      copies == CopyPhase(stageMats, 1, fresh.mats)
                      remap == Remap(copies \ fresh.mats)
                      withMats == [fresh EXCEPT !.mats = copies]
                      done == [withMats EXCEPT !.binds =
                                 [s \in Sites |-> Rebound(withMats, baseBind, remap, s)]]
                  IN /\ meta_layer' = done
                     /\ mat_remap' = remap
                     /\ passLog' = Append(passLog,
                            [raised |-> FALSE,
                             copied_mats |-> Cardinality(copies \ fresh.mats),
                             mats |-> done.mats,
                             bound |-> BoundTargets(done, baseBind)])
             ELSE /\ UNCHANGED <<meta_layer, mat_remap>>
                  /\ passLog' = Append(passLog,
                            [raised |-> TRUE, copied_mats |-> 0,
                             mats |-> meta_layer.mats,
                             bound |-> BoundTargets(meta_layer, baseBind)])
    /\ UNCHANGED <<stageMats, baseBind, sgVars, raceVars, dupVars, nameVars, envVars, redVars, jobEnvVars, sceneVars, texVars, oiioVars, allocVars,
                   lodVars, pubVars>>

(***************************************************************************)
(* Review records: SGlogin.ShotgunDataManager and the farm worker's        *)
(* EmbeddedShotgunManager                                                  *)
(***************************************************************************)
SgPublishers == 1..MaxSgPublishers

\* self.HAL_CONTENT = f"{self.HAL_ASSET}_{self.HAL_TASK}"
SgContent == <<"a", "_", "s">>

UserAbbrs == {<<"a", "b", "c">>, <<"x", "y", "z">>}

\* anim_tag: "" or a tag
AnimTags == {<<>>, <<"t">>}

LetterChars ==
    {"a", "b", "c", "d", "e", "f", "g", "h", "i", "j", "k", "l", "m",
     "n", "o", "p", "q", "r", "s", "t", "u", "v", "w", "x", "y", "z"}

\* the end of the digit run that starts at position i (i - 1 if there is none)
DigitRunEnd(code, i) ==
    CHOOSE j \in (i - 1)..Len(code) :
        /\ \A k \in i..j : IsDigit(code[k])
        /\ j = Len(code) \/ ~IsDigit(code[j + 1])

\* positions where r'_v(\d{3,})' matches
SgVersionMatches(code) ==
    {i \in 1..Len(code) :
        /\ i + 4 <= Len(code)
        /\ code[i] = "_" /\ code[i + 1] = "v"
        /\ \A k \in (i + 2)..(i + 4) : IsDigit(code[k])}

\* int(re.search(r'_v(\d{3,})', version_str).group(1))
SgVersionNumber(code) ==
    LET i == CHOOSE m \in SgVersionMatches(code) :
                 \A n \in SgVersionMatches(code) : m <= n
    IN ParseInt(SubSeq(code, i + 2, DigitRunEnd(code, i + 2)))

\* re.search(r'_v\d{3,}_[a-zA-Z]{3}-', code)
SgTaggedPat(code) ==
    \E i \in SgVersionMatches(code) : \E j \in (i + 4)..Len(code) :
        /\ \A k \in (i + 2)..j : IsDigit(code[k])
        /\ j + 5 <= Len(code)
        /\ code[j + 1] = "_"
        /\ \A k \in (j + 2)..(j + 4) : code[k] \in LetterChars
        /\ code[j + 5] = "-"

\* code.endswith(suffix)
EndsWith(code, suffix) ==
    /\ Len(code) >= Len(suffix)
    /\ SubSeq(code, Len(code) - Len(suffix) + 1, Len(code)) = suffix

\* versions_to_parse
VersionsToParse(all_versions, anim_tag) ==
    IF anim_tag # <<>>
    THEN {c \in all_versions : EndsWith(c, <<"-">> \o anim_tag)}
    ELSE {c \in all_versions : ~SgTaggedPat(c)}

\* max(version_numbers) + 1, or 1
SgNextVersion(all_versions, anim_tag) ==
    LET version_numbers ==
            {SgVersionNumber(c) :
                c \in {x \in VersionsToParse(all_versions, anim_tag) :
                          SgVersionMatches(x) # {}}}
    IN IF version_numbers # {} THEN SetMax(version_numbers) + 1 ELSE 1

\* f"{HAL_CONTENT}_v{next_version:03d}_{HAL_USER_ABBR}" [ + f"-{anim_tag}" ]
SgVersionCode(next_version, user, anim_tag) ==
    LET base_name == SgContent \o <<"_", "v">>
                         \o ZeroPad(ToDigits(next_version), 3)
                         \o <<"_">> \o user
    IN IF anim_tag # <<>> THEN base_name \o <<"-">> \o anim_tag ELSE base_name

SG_Find_Version(all_versions, user, anim_tag) ==
    SgVersionCode(SgNextVersion(all_versions, anim_tag), user, anim_tag)

\* the worker: f"{asset}_{task}_{version}_{user}", version = basename(version_dir)
FarmVersionCode(dir, user) ==
    SgContent \o <<"_">> \o VersionLabel(dir) \o <<"_">> \o user

\* Create_SG_Version, first half: the scan (sg.find_one, sg.find) and the name
SgFindVersion(p) ==
    /\ sgPc[p] = "idle"
    /\ sgCode' = [sgCode EXCEPT ![p] =
                     SG_Find_Version(Range(sgVersions), sgEnv[p].user,
                                     sgEnv[p].anim_tag)]
    /\ sgPc' = [sgPc EXCEPT ![p] = "found"]
    /\ UNCHANGED <<sgVersions, sgEnv, rebVars, raceVars, dupVars, nameVars, envVars, redVars, jobEnvVars, sceneVars, texVars, oiioVars, allocVars,
                   lodVars, pubVars>>

\* Create_SG_Version, second half: sg.create('Version', data)
SgCreateVersion(p) ==
    /\ sgPc[p] = "found"
    /\ sgVersions' = Append(sgVersions, sgCode[p])
    /\ sgPc' = [sgPc EXCEPT ![p] = "created"]
    /\ UNCHANGED <<sgCode, sgEnv, rebVars, raceVars, dupVars, nameVars, envVars, redVars, jobEnvVars, sceneVars, texVars, oiioVars, allocVars,
                   lodVars, pubVars>>

\* the farm worker: Create_SG_Version(thumb, usd, specific_code=version_code)
SgFarmCreateVersion(p) ==
    /\ sgPc[p] = "idle"
    /\ LET code == FarmVersionCode(sgEnv[p].dir, sgEnv[p].user)
       IN /\ sgCode' = [sgCode EXCEPT ![p] = code]
          /\ sgVersions' = Append(sgVersions, code)
    /\ sgPc' = [sgPc EXCEPT ![p] = "created"]
    /\ UNCHANGED <<sgEnv, rebVars, raceVars, dupVars, nameVars, envVars, redVars, jobEnvVars, sceneVars, texVars, oiioVars, allocVars,
                   lodVars, pubVars>>

(***************************************************************************)
(* Concurrent callers of get_publish_paths / _next_version_folder: every   *)
(* file-system call is a step of its own                                   *)
(***************************************************************************)
Callers == 1..MaxCallers

NoLabel == <<>>

CallerStart ==
    [pc |-> "start", max_n |-> 0, version |-> NoLabel, isdir |-> FALSE,
     result |-> "none"]

raceRest ==
    <<scanned, issued, allocResult, oiioVars, texVars, sceneVars, jobEnvVars, redVars, envVars, rebVars, sgVars, dupVars, nameVars, lodVars,
      pubVars>>

\* os.makedirs(path): FileExistsError when anything has that name
MakeDirs(listing, name) ==
    IF \E e \in listing : e.name = name
    THEN [ok |-> FALSE, listing |-> listing]
    ELSE [ok |-> TRUE, listing |-> listing \cup {[name |-> name, isdir |-> TRUE]}]

AfterCheck_exclusive(isdir) ==
    IF isdir THEN [pc |-> "done", result |-> "error"]
    ELSE [pc |-> "makedirs", result |-> "none"]

\* if not os.path.isdir(version_dir): os.makedirs(version_dir)
AfterCheck(isdir) ==
    IF isdir THEN [pc |-> "done", result |-> "ok"]
    ELSE [pc |-> "makedirs", result |-> "none"]

\* os.path.isdir(maya_pub_root)
RaceCheckParent(p) ==
    /\ callers[p].pc = "start"
    /\ callers' = [callers EXCEPT ![p].pc =
                      IF parentExists THEN "scan" ELSE "mkparent"]
    /\ UNCHANGED <<parentExists, entries, raceRest>>

\* os.makedirs(maya_pub_root)
RaceMakeParent(p) ==
    /\ callers[p].pc = "mkparent"
    /\ IF parentExists
       THEN callers' = [callers EXCEPT ![p].pc = "done", ![p].result = "error"]
       ELSE callers' = [callers EXCEPT ![p].pc = "scan"]
    /\ parentExists' = TRUE
    /\ UNCHANGED <<entries, raceRest>>

\* the os.listdir loop and the label
RaceScan(p) ==
    /\ callers[p].pc = "scan"
    /\ LET max_n == NextVersionNumber(entries) - 1
       IN callers' = [callers EXCEPT ![p].pc = "check",
                                     ![p].max_n = max_n,
                                     ![p].version = VersionLabel(max_n + 1)]
    /\ UNCHANGED <<parentExists, entries, raceRest>>

\* os.path.isdir(version_dir)
RaceCheckDir(p) ==
    /\ callers[p].pc = "check"
    /\ LET isdir == [name |-> callers[p].version, isdir |-> TRUE] \in entries
           next == AfterCheck(isdir)
       IN callers' = [callers EXCEPT ![p].pc = next.pc,
                                     ![p].isdir = isdir,
                                     ![p].result = next.result]
    /\ UNCHANGED <<parentExists, entries, raceRest>>

\* os.makedirs(version_dir)
RaceMakeDirs(p) ==
    /\ callers[p].pc = "makedirs"
    /\ LET made == MakeDirs(entries, callers[p].version)
       IN /\ entries' = made.listing
          /\ callers' = [callers EXCEPT
                            ![p].pc = "done",
                            ![p].result = IF made.ok THEN "ok" ELSE "error"]
    /\ UNCHANGED <<parentExists, raceRest>>

(***************************************************************************)
(* Specifications                                                          *)
(***************************************************************************)
(* _reduce_with_cleanup and the loop of _duplicate_and_reduce that calls   *)
(* it for every mesh transform of the duplicate.  What polyReduce and      *)
(* polyCleanup do to a given mesh is the tool's business: each call either *)
(* returns, raises RuntimeError or raises another exception.               *)
(***************************************************************************)
ToolOutcomes == {"ok", "RuntimeError", "Exception"}

\* 26.02.03: try reduce; except RuntimeError: cleanup and reduce again
\* inside one try whose bare except returns False.
ReduceWithCleanup(first, cleanup, retry) ==
    IF first = "ok"
    THEN [calls |-> <<"polyReduce">>, result |-> "True"]
    ELSE IF first # "RuntimeError"
    THEN [calls |-> <<"polyReduce">>, result |-> "raised"]
    ELSE IF cleanup # "ok"
    THEN [calls |-> <<"polyReduce", "polyCleanup">>, result |-> "False"]
    ELSE [calls |-> <<"polyReduce", "polyCleanup", "polyReduce">>,
          result |-> IF retry = "ok" THEN "True" ELSE "False"]

\* 25.12.7: MEL-equivalent reduce; on RuntimeError _cleanup_light (which
\* swallows its own failure) and a retry; whatever failed, a last-resort
\* polyReduce with the short flag set.
ReduceWithCleanupMel(first, retry, last) ==
    LET lastResort(before) ==
            [calls |-> Append(before, "polyReduce"),
             result |-> IF last = "ok" THEN "True" ELSE "False"]
    IN IF first = "ok"
       THEN [calls |-> <<"polyReduce">>, result |-> "True"]
       ELSE IF first = "RuntimeError"
       THEN IF retry = "ok"
            THEN [calls |-> <<"polyReduce", "polyCleanup", "polyReduce">>,
                  result |-> "True"]
            ELSE lastResort(<<"polyReduce", "polyCleanup", "polyReduce">>)
       ELSE lastResort(<<"polyReduce">>)

\* one iteration of `for x in sorted(...): _reduce_with_cleanup(x, percent)`
LoopAfter(r) ==
    IF r.result = "raised" THEN "raised"
    ELSE IF Len(redCalls) + 1 = redMeshes THEN "done"
    ELSE "running"

DuplicateAndReduce ==
    /\ redTree = "26.02.03" /\ redLoop = "running"
    /\ \E first \in ToolOutcomes, cleanup \in ToolOutcomes, retry \in ToolOutcomes :
          LET r == ReduceWithCleanup(first, cleanup, retry)
          IN /\ redCalls' = Append(redCalls, r)
             /\ redLoop' = LoopAfter(r)
    /\ UNCHANGED <<redTree, redMeshes, rebVars, sgVars, raceVars, dupVars,
                   nameVars, envVars, jobEnvVars, sceneVars, texVars, oiioVars, allocVars, lodVars, pubVars>>

DuplicateAndReduceMel ==
    /\ redTree = "25.12.7" /\ redLoop = "running"
    /\ \E first \in ToolOutcomes, retry \in ToolOutcomes, last \in ToolOutcomes :
          LET r == ReduceWithCleanupMel(first, retry, last)
          IN /\ redCalls' = Append(redCalls, r)
             /\ redLoop' = LoopAfter(r)
    /\ UNCHANGED <<redTree, redMeshes, rebVars, sgVars, raceVars, dupVars,
                   nameVars, envVars, jobEnvVars, sceneVars, texVars, oiioVars, allocVars, lodVars, pubVars>>

(***************************************************************************)
(* The environment of a farm job.  Keys and values are character           *)
(* sequences, so startswith, upper and the "KEY=VALUE" entry are computed. *)
(***************************************************************************)
StartsWith_firstChar(k, p) == Len(k) >= 1 /\ Len(p) >= 1 /\ k[1] = p[1]

StartsWith(k, p) == Len(k) >= Len(p) /\ SubSeq(k, 1, Len(p)) = p

\* stands for any character outside ASCII
NonAscii == "u-umlaut"

\* s.encode('ascii') succeeds
IsAscii(s) == \A i \in 1..Len(s) : s[i] # NonAscii

UpperChar(ch) ==
    CASE ch = "h" -> "H" [] ch = "a" -> "A" [] ch = "l" -> "L"
      [] ch = "x" -> "X" [] OTHER -> ch

Upper(k) == [i \in 1..Len(k) |-> UpperChar(k[i])]

blocklist == {<<"P", "Y", "T", "H", "O", "N", "H", "O", "M", "E">>,
             <<"T", "E", "M", "P">>,
             <<"T", "M", "P">>,
             <<"U", "S", "E", "R">>,
             <<"U", "S", "E", "R", "N", "A", "M", "E">>}

force_keys == {<<"P", "A", "T", "H">>,
              <<"P", "Y", "T", "H", "O", "N", "P", "A", "T", "H">>,
              <<"M", "A", "Y", "A", "_", "P", "L", "U", "G", "_", "I", "N", "_", "P", "A", "T", "H">>,
              <<"M", "A", "Y", "A", "_", "M", "O", "D", "U", "L", "E", "_", "P", "A", "T", "H">>,
              <<"M", "T", "O", "A", "_", "P", "A", "T", "H">>,
              <<"A", "R", "N", "O", "L", "D", "_", "P", "L", "U", "G", "I", "N", "_", "P", "A", "T", "H">>,
              <<"P", "X", "R", "_", "P", "L", "U", "G", "I", "N", "P", "A", "T", "H", "_", "N", "A", "M", "E">>}

prefixes == {<<"H", "A", "L", "_">>,
             <<"R", "E", "Z", "_">>,
             <<"A", "R", "N", "O", "L", "D", "_">>,
             <<"P", "E", "R", "E", "G", "R", "I", "N", "E", "_">>,
             <<"Y", "E", "T", "I", "_">>,
             <<"U", "S", "D", "_">>}

exacts == {<<"J", "O", "B">>,
           <<"S", "H", "O", "W">>,
           <<"S", "H", "O", "T">>,
           <<"S", "E", "Q">>,
           <<"O", "C", "I", "O">>}

ALLOWED_MAYA_EXACT == {<<"M", "A", "Y", "A", "_", "P", "R", "E", "F", "E", "R", "R", "E", "D", "_", "R", "E", "N", "D", "E", "R", "E", "R">>,
                      <<"M", "A", "Y", "A", "_", "E", "N", "A", "B", "L", "E", "_", "L", "E", "G", "A", "C", "Y", "_", "R", "E", "N", "D", "E", "R", "_", "L", "A", "Y", "E", "R", "S">>,
                      <<"M", "A", "Y", "A", "_", "V", "P", "2", "_", "D", "E", "V", "I", "C", "E", "_", "O", "V", "E", "R", "R", "I", "D", "E">>,
                      <<"A", "R", "N", "O", "L", "D", "_", "P", "L", "U", "G", "I", "N", "_", "P", "A", "T", "H">>,
                      <<"M", "A", "Y", "A", "_", "P", "L", "U", "G", "_", "I", "N", "_", "P", "A", "T", "H">>,
                      <<"P", "A", "T", "H">>,
                      <<"P", "Y", "T", "H", "O", "N", "P", "A", "T", "H">>}

\* f"{k}={v}"
EnvEntry(k, v) == k \o <<"=">> \o v

\* DeadlineSubmitter.get_environment (26.02.03)
get_environment(environ) ==
    LET keep(k) ==
            /\ k \notin blocklist
            /\ IsAscii(k) /\ IsAscii(environ[k])
            /\ \/ k \in force_keys
               \/ k \in exacts
               \/ \E p \in prefixes : StartsWith(k, p)
    IN [k \in {x \in DOMAIN environ : keep(x)} |-> environ[k]]

\* run_deadline_publish: env_vars keeps the pairs whose encoded key and
\* value are both non-empty; _get_Job_Info_Dict writes one entry per pair.
JobInfoEnvironment(environ) ==
    LET raw_env == get_environment(environ)
        env_vars == {k \in DOMAIN raw_env : k # <<>> /\ raw_env[k] # <<>>}
    IN {EnvEntry(k, raw_env[k]) : k \in env_vars}

\* f"{REZ_MAYA_MTOA_ROOT}\scripts" followed by ";"
arnoldScriptPath == <<"$", ";">>

\* DeadlineSubmitter.submit (25.12.7): the entries it adds to job_info
SubmitEnvironment(environ) ==
    LET allowed(k) ==
            \/ StartsWith(Upper(k), <<"H", "A", "L">>)
            \/ Upper(k) \in ALLOWED_MAYA_EXACT
        value(k) == IF Upper(k) = <<"P", "Y", "T", "H", "O", "N", "P", "A", "T", "H">>
                    THEN arnoldScriptPath \o environ[k]
                    ELSE environ[k]
    IN {EnvEntry(k, value(k)) : k \in {x \in DOMAIN environ : allowed(x)}}

GetJobInfoDict ==
    /\ envSubmitter = "none"
    /\ job_env' = JobInfoEnvironment(os_environ)
    /\ envSubmitter' = "26.02.03"
    /\ UNCHANGED <<os_environ, rebVars, sgVars, raceVars, dupVars,
                   nameVars, envVars, redVars, sceneVars, texVars, oiioVars, allocVars, lodVars, pubVars>>

SubmitMel ==
    /\ envSubmitter = "none"
    /\ job_env' = SubmitEnvironment(os_environ)
    /\ envSubmitter' = "25.12.7"
    /\ UNCHANGED <<os_environ, rebVars, sgVars, raceVars, dupVars,
                   nameVars, envVars, redVars, sceneVars, texVars, oiioVars, allocVars, lodVars, pubVars>>

(***************************************************************************)
(* Texture tier paths.  A path is a sequence of segments and a segment is  *)
(* a sequence of tokens (a name, ".", "_", a UDIM token, a tile number, a  *)
(* tier label), so split, insert, splitext and endswith are computed.      *)
(***************************************************************************)
LodLabel(L) == CASE L = 2 -> "LOD2" [] L = 4 -> "LOD4" [] L = 10 -> "LOD10"

\* f"_{lod}"
LodSuffix(L) == <<"_", LodLabel(L)>>

UdimTokens == {"<UDIM>", "<udim>"}
TileIds == {"1001", "1002"}

LowerSeg(seg) == [i \in 1..Len(seg) |-> IF seg[i] = "Export" THEN "export" ELSE seg[i]]

SetMin(S) == CHOOSE x \in S : \A y \in S : x <= y

\* list.insert(k, x) with k counted from 0
InsertAt(parts, k, x) == SubSeq(parts, 1, k) \o <<x>> \o SubSeq(parts, k + 1, Len(parts))

ReplaceLast(parts, n) == [parts EXCEPT ![Len(parts)] = n]

\* os.path.splitext of a file name: [stem, ext], split at the last dot
SplitExt(n) ==
    LET dots == {i \in 2..Len(n) : n[i] = "."}
    IN IF dots = {} THEN <<n, <<>> >>
       ELSE <<SubSeq(n, 1, SetMax(dots) - 1), SubSeq(n, SetMax(dots), Len(n))>>

\* stem, ext = splitext(n); if not stem.endswith(suffix): stem + suffix + ext
SuffixStem(n, suffix) ==
    IF EndsWith(SplitExt(n)[1], suffix) THEN n
    ELSE SplitExt(n)[1] \o suffix \o SplitExt(n)[2]

UdimAt(n) == {i \in 1..Len(n) : n[i] \in UdimTokens}

\* TextureLODProcessor.get_dst_path(src, lod)
get_dst_path(src, L) ==
    LET lod == <<LodLabel(L)>>
        hits == {i \in 1..Len(src) : LowerSeg(src[i]) = <<"export">>}
        idx == SetMin(hits) - 1
        parts == IF hits # {}
                 THEN IF idx + 1 < Len(src) - 1
                      THEN InsertAt(src, idx + 2, lod)
                      ELSE InsertAt(src, idx + 1, lod)
                 ELSE InsertAt(src, Len(src) - 1, lod)
        n == parts[Len(parts)]
        at == SetMin(UdimAt(n))
        prefix == SubSeq(n, 1, at - 1)
        rest == SubSeq(n, at, Len(n))
        named ==
            IF UdimAt(n) # {}
            THEN IF prefix # <<>> /\ prefix[Len(prefix)] \in {".", "_"}
                 THEN SubSeq(prefix, 1, Len(prefix) - 1) \o LodSuffix(L)
                          \o <<prefix[Len(prefix)]>> \o rest
                 ELSE prefix \o LodSuffix(L) \o rest
            ELSE SuffixStem(n, LodSuffix(L))
    IN ReplaceLast(parts, named)

\* get_dst_path of OIIO_process_LOD_Tasks.py
farm_get_dst_path(src, L) ==
    LET lod == <<LodLabel(L)>>
        hits == {i \in 1..Len(src) : src[i] = <<"export">>}
        parts == IF hits # {}
                 THEN InsertAt(src, SetMax(hits), lod)
                 ELSE InsertAt(src, Len(src) - 1, lod)
    IN ReplaceLast(parts, SuffixStem(parts[Len(parts)], LodSuffix(L)))

\* TextureLODManager._to_lod_path(path, level)
to_lod_path(path, L) ==
    LET directory == SubSeq(path, 1, Len(path) - 1)
        filename == path[Len(path)]
        suffix == LodSuffix(L)
        \* f"{directory}/{lod_dir_name}": an empty dirname gives "/LODn"
        new_directory == (IF directory = <<>> THEN << <<>> >> ELSE directory)
                             \o << <<LodLabel(L)>> >>
        at == SetMin(UdimAt(filename))
        prefix == SubSeq(filename, 1, at - 1)
        rest == SubSeq(filename, at, Len(filename))
        new_filename ==
            IF UdimAt(filename) # {}
            THEN IF ~EndsWith(prefix, suffix) /\ ~EndsWith(prefix, suffix \o <<".">>)
                 THEN IF EndsWith(prefix, <<".">>)
                      THEN SubSeq(prefix, 1, Len(prefix) - 1) \o suffix \o <<".">> \o rest
                      ELSE prefix \o suffix \o rest
                 ELSE filename
            ELSE SuffixStem(filename, suffix)
    IN new_directory \o <<new_filename>>

\* re.sub of the UDIM token / str.replace of a tile number, in every segment
ReplaceToken(path, old, new) ==
    [i \in 1..Len(path) |->
        [m \in 1..Len(path[i]) |-> IF path[i][m] \in old THEN new ELSE path[i][m]]]

HasUdimToken(path) == \E i \in 1..Len(path) : UdimAt(path[i]) # {}

\* scan_scene_textures: a concrete tile number between separators is
\* abstracted to <UDIM>
scan_scene_textures(path) ==
    LET n == path[Len(path)]
        nums == {i \in 2..(Len(n) - 1) :
                    /\ n[i] \in TileIds
                    /\ n[i - 1] \in {".", "_"} /\ n[i + 1] \in {".", "_"}}
    IN IF HasUdimToken(path) \/ nums = {} THEN path
       ELSE ReplaceToken(path, {n[SetMin(nums)]}, "<UDIM>")

\* _expand_udim_tiles: tile id -> concrete path; every pattern has the
\* tiles TileIds on disk, a plain file is its own single tile
expand_udim_tiles(pattern) ==
    IF HasUdimToken(pattern)
    THEN {[id |-> t, path |-> ReplaceToken(pattern, UdimTokens, t)] : t \in TileIds}
    ELSE {[id |-> "1001", path |-> pattern]}

\* convert_texture_task for one tier: the files written
convert_texture_task(src_path, L) ==
    IF HasUdimToken(src_path)
    THEN {[src |-> t.path,
           dst |-> ReplaceToken(get_dst_path(src_path, L), UdimTokens, t.id)] :
             t \in expand_udim_tiles(src_path)}
    ELSE {[src |-> src_path, dst |-> get_dst_path(src_path, L)]}

\* submit_oiio_job's manifest and convert_texture of the farm script
oiio_manifest(tex_files) ==
    UNION {{t.path : t \in expand_udim_tiles(f)} : f \in tex_files}

convert_texture(src, L) == [src |-> src, dst |-> farm_get_dst_path(src, L)]

NoPath == <<>>
NoSwitch == [L \in TexLevels |-> NoPath]
NoPairs == [L \in TexLevels |-> {}]

\* TextureLODManager.process on the variant of tier L
ProcessLod ==
    /\ \E L \in TexLevels :
          /\ tex_switched[L] = NoPath
          /\ tex_switched' = [tex_switched EXCEPT ![L] = to_lod_path(tex_path, L)]
    /\ UNCHANGED <<tex_path, tex_local, tex_farm, rebVars, sgVars, raceVars, dupVars, nameVars, envVars,
                   redVars, jobEnvVars, sceneVars, oiioVars, allocVars, lodVars, pubVars>>

\* TextureLODProcessor.run_local on the scanned path
RunLocal ==
    /\ tex_local = NoPairs
    /\ tex_local' = [L \in TexLevels |->
                        convert_texture_task(scan_scene_textures(tex_path), L)]
    /\ UNCHANGED <<tex_path, tex_switched, tex_farm, rebVars, sgVars, raceVars, dupVars, nameVars, envVars,
                   redVars, jobEnvVars, sceneVars, oiioVars, allocVars, lodVars, pubVars>>

\* the OIIO job over the manifest of the scanned path
OiioProcessLodTasks ==
    /\ tex_farm = NoPairs
    /\ tex_farm' = [L \in TexLevels |->
                       {convert_texture(f, L) :
                          f \in oiio_manifest({scan_scene_textures(tex_path)})}]
    /\ UNCHANGED <<tex_path, tex_switched, tex_local, rebVars, sgVars, raceVars, dupVars, nameVars, envVars,
                   redVars, jobEnvVars, sceneVars, oiioVars, allocVars, lodVars, pubVars>>

(***************************************************************************)
(* The texture_convert job: frames 0..n-1 of the manifest in chunks, one   *)
(* farm task per chunk, each task converting all_files[start : end + 1].   *)
(***************************************************************************)
ChunkLimit == 50

\* chunk = "50" if len(sorted_files) > 50 else str(len(sorted_files))
ChunkSize(n) == IF n > ChunkLimit THEN ChunkLimit ELSE n

\* Frames = "0-<n-1>" cut by the scheduler into consecutive chunks; each
\* chunk's first and last frame become <STARTFRAME> and <ENDFRAME>
FrameChunks(n, chunk) ==
    {[start |-> k * chunk,
      end |-> IF k * chunk + chunk - 1 < n - 1 THEN k * chunk + chunk - 1 ELSE n - 1] :
        k \in 0..((n - 1) \div chunk)}

BatchSlice_exclusive(n, start_idx, end_idx) ==
    {i \in 0..(n - 1) : start_idx <= i /\ i < end_idx}

\* all_files[start_idx : end_idx + 1]: the indices of the slice
BatchSlice(n, start_idx, end_idx) ==
    {i \in 0..(n - 1) : start_idx <= i /\ i < end_idx + 1}

SubmitOiioJob ==
    /\ oiioPc = "none" /\ sorted_files > 0
    /\ oiioTasks' = FrameChunks(sorted_files, ChunkSize(sorted_files))
    /\ oiioPc' = "submitted"
    /\ UNCHANGED <<sorted_files, converted, rebVars, sgVars, raceVars, dupVars, nameVars,
                   envVars, redVars, jobEnvVars, sceneVars, texVars, allocVars,
                   lodVars, pubVars>>

\* one farm task: OIIO_process_LOD_Tasks.py <manifest> <start> <end>
OiioTask ==
    /\ oiioPc = "submitted"
    /\ \E t \in oiioTasks :
          /\ oiioTasks' = oiioTasks \ {t}
          /\ converted' = [i \in DOMAIN converted |->
                              IF i \in BatchSlice(sorted_files, t.start, t.end)
                              THEN converted[i] + 1 ELSE converted[i]]
    /\ UNCHANGED <<sorted_files, oiioPc, rebVars, sgVars, raceVars, dupVars, nameVars,
                   envVars, redVars, jobEnvVars, sceneVars, texVars, allocVars,
                   lodVars, pubVars>>

(***************************************************************************)
RebIdle ==
    /\ stageMats = <<>>
    /\ baseBind = [s \in Sites |-> NoTarget]
    /\ meta_layer = EmptyLayer
    /\ mat_remap = <<>>
    /\ passLog = <<>>

SgIdle ==
    /\ sgVersions = <<>>
    /\ sgEnv = <<>>
    /\ sgPc = <<>>
    /\ sgCode = <<>>

RaceIdle == callers = <<>>

DupIdle == reductions = [i \in 1..MaxLod |-> FreshDuplicate]

NameIdle == top_name = NoName

\* every subsystem outside S is at rest
EnvIdle == hal_root = TaskRoot /\ pub_root = NoRoot

RedIdle == redTree = "none" /\ redMeshes = 0 /\ redCalls = <<>> /\ redLoop = "done"

JobEnvIdle == os_environ = <<>> /\ job_env = {} /\ envSubmitter = "none"

SceneIdle == scene = SceneStart

TexIdle == tex_path = <<>> /\ tex_switched = NoSwitch /\ tex_local = NoPairs /\ tex_farm = NoPairs

OiioIdle == sorted_files = 0 /\ oiioPc = "none" /\ oiioTasks = {} /\ converted = <<>>

SideIdleExcept(S) ==
    /\ "rebVars" \in S \/ RebIdle
    /\ "sgVars" \in S \/ SgIdle
    /\ "raceVars" \in S \/ RaceIdle
    /\ "dupVars" \in S \/ DupIdle
    /\ "nameVars" \in S \/ NameIdle
    /\ "envVars" \in S \/ EnvIdle
    /\ "redVars" \in S \/ RedIdle
    /\ "jobEnvVars" \in S \/ JobEnvIdle
    /\ "sceneVars" \in S \/ SceneIdle
    /\ "texVars" \in S \/ TexIdle
    /\ "oiioVars" \in S \/ OiioIdle

SideIdle == SideIdleExcept({})

AllocIdle ==
    /\ scanned = {}
    /\ issued = <<>>
    /\ allocResult = "none"

LodIdle ==
    /\ localPct = <<>>
    /\ workerPct = [i \in 1..MaxLevel |-> NoPct]

PubIdle ==
    /\ pc = At("start")
    /\ files = {}
    /\ outcome = [t \in AllTasks |-> "none"]
    /\ status = [t \in AllTasks |-> "unscheduled"]
    /\ deps = [t \in AllTasks |-> {}]
    /\ assembly_dependencies = <<>>
    /\ texPending = {}
    /\ payloadSubs = <<>>
    /\ payloadInputs = <<>>
    /\ vsets = [n \in VsetNames |-> NoVset]

NoConfig ==
    [has_proxy |-> FALSE, has_lods |-> FALSE, lod_count |-> 0,
     do_tex |-> FALSE, tex_files |-> 0]

\* the allocator on a parent directory with up to MaxEntries entries
InitAlloc ==
    /\ parentExists \in BOOLEAN
    /\ entries \in {l \in Listings(MaxEntries) : UniqueNames(l)}
    /\ parentExists \/ entries = {}
    /\ AllocIdle
    /\ base_percent = 50 /\ lod_total = 0 /\ LodIdle
    /\ mode = "none" /\ cfg = NoConfig /\ PubIdle
    /\ hal_root \in {UnsetRoot, TaskRoot} /\ pub_root = NoRoot
    /\ SideIdleExcept({"envVars"})

NextAlloc == GetPublishPaths \/ NextVersionFolder \/ LookdevConfigError

SpecAlloc == InitAlloc /\ [][NextAlloc]_vars

BasePercents == 1..99

\* the reduction percentage for every base percentage and level count
InitLod ==
    /\ base_percent \in BasePercents
    /\ lod_total \in 1..MaxLevel
    /\ LodIdle
    /\ parentExists = FALSE /\ entries = {} /\ AllocIdle
    /\ mode = "none" /\ cfg = NoConfig /\ PubIdle
    /\ SideIdle

NextLod == LocalLodStep \/ \E i \in 1..MaxLevel : WorkerLodPercent(i)

SpecLod == InitLod /\ [][NextLod]_vars

\* the composed payload stages the rebinder is run on: material prims in
\* traversal order, and the material each binding site targets
StageOrders ==
    UNION {{q \in [1..k -> MatPool] : \A i, j \in 1..k : i # j => q[i] # q[j]}
             : k \in 0..MaxMats}

InitRebind ==
    /\ stageMats \in StageOrders
    /\ baseBind \in [Sites -> Range(stageMats) \cup {NoTarget}]
    /\ meta_layer = EmptyLayer
    /\ mat_remap = <<>>
    /\ passLog = <<>>
    /\ parentExists = FALSE /\ entries = {} /\ AllocIdle
    /\ base_percent = 50 /\ lod_total = 0 /\ LodIdle
    /\ mode = "none" /\ cfg = NoConfig /\ PubIdle
    /\ SideIdleExcept({"rebVars"})

NextRebind == AuthorMetaAndFixMaterials

SpecRebind == InitRebind /\ [][NextRebind]_vars

\* codes a task's earlier records may carry
SgPriorPool ==
    {SgVersionCode(1, <<"a", "b", "c">>, <<>>),
     SgVersionCode(2, <<"x", "y", "z">>, <<>>),
     SgVersionCode(2, <<"a", "b", "c">>, <<"t">>),
     SgVersionCode(1000, <<"a", "b", "c">>, <<>>),
     SgContent \o <<"_">> \o <<"a", "b", "c">>}

\* the task's records before the publishers start, oldest first
SgPriorRecords ==
    UNION {{q \in [1..k -> SgPriorPool] : \A i, j \in 1..k : i < j => q[i] # q[j]}
             : k \in 0..MaxSgPrior}

\* publishers of one task; publisher p on the farm publishes version dir p
InitSg ==
    /\ sgVersions \in SgPriorRecords
    /\ sgEnv \in [SgPublishers -> [user : UserAbbrs, anim_tag : AnimTags,
                                   dir : SgPublishers]]
    /\ \A p \in SgPublishers : sgEnv[p].dir = p
    /\ sgPc = [p \in SgPublishers |-> "idle"]
    /\ sgCode = [p \in SgPublishers |-> <<>>]
    /\ SideIdleExcept({"sgVars"})
    /\ parentExists = FALSE /\ entries = {} /\ AllocIdle
    /\ base_percent = 50 /\ lod_total = 0 /\ LodIdle
    /\ mode = "none" /\ cfg = NoConfig /\ PubIdle

NextSg ==
    \E p \in SgPublishers :
        SgFindVersion(p) \/ SgCreateVersion(p) \/ SgFarmCreateVersion(p)

SpecSg == InitSg /\ [][NextSg]_vars

\* publishes of one asset root started together
InitRace ==
    /\ parentExists \in BOOLEAN
    /\ entries \in {l \in Listings(MaxRaceEntries) : UniqueNames(l)}
    /\ parentExists \/ entries = {}
    /\ callers = [p \in Callers |-> CallerStart]
    /\ AllocIdle
    /\ base_percent = 50 /\ lod_total = 0 /\ LodIdle
    /\ mode = "none" /\ cfg = NoConfig /\ PubIdle
    /\ SideIdleExcept({"raceVars"})

NextRace ==
    \E p \in Callers :
        \/ RaceCheckParent(p) \/ RaceMakeParent(p) \/ RaceScan(p)
        \/ RaceCheckDir(p) \/ RaceMakeDirs(p)

SpecRace == InitRace /\ [][NextRace]_vars

\* the reduction loop over the mesh transforms of one duplicate
InitReduce ==
    /\ parentExists = FALSE /\ entries = {} /\ AllocIdle
    /\ base_percent = 50 /\ lod_total = 0 /\ LodIdle
    /\ mode = "none" /\ cfg = NoConfig /\ PubIdle
    /\ SideIdleExcept({"redVars"})
    /\ redTree \in {"26.02.03", "25.12.7"}
    /\ redMeshes \in 1..MaxMeshes
    /\ redCalls = <<>> /\ redLoop = "running"

NextReduce == DuplicateAndReduce \/ DuplicateAndReduceMel

SpecReduce == InitReduce /\ [][NextReduce]_vars

\* variables a submitting process may hold, and their values
EnvKeyPool == {<<"P", "A", "T", "H">>,
              <<"P", "Y", "T", "H", "O", "N", "P", "A", "T", "H">>,
              <<"P", "Y", "T", "H", "O", "N", "H", "O", "M", "E">>,
              <<"T", "E", "M", "P">>,
              <<"T", "M", "P">>,
              <<"U", "S", "E", "R">>,
              <<"U", "S", "E", "R", "N", "A", "M", "E">>,
              <<"U", "S", "D", "_", "X">>,
              <<"H", "A", "L", "_", "X">>,
              <<"H", "A", "L", "X">>,
              <<"h", "a", "l", "_", "x">>,
              <<"J", "O", "B">>,
              <<"J", "O", "B", "S">>,
              <<"S", "E", "C", "R", "E", "T">>}

EnvValuePool == {<<"a">>, <<NonAscii>>, <<>>}

\* one submission from a process holding up to MaxEnvVars variables
InitEnv ==
    /\ parentExists = FALSE /\ entries = {} /\ AllocIdle
    /\ base_percent = 50 /\ lod_total = 0 /\ LodIdle
    /\ mode = "none" /\ cfg = NoConfig /\ PubIdle
    /\ SideIdleExcept({"jobEnvVars"})
    /\ \E ks \in {x \in SUBSET EnvKeyPool : Cardinality(x) <= MaxEnvVars} :
          os_environ \in [ks -> EnvValuePool]
    /\ job_env = {} /\ envSubmitter = "none"

NextEnv == GetJobInfoDict \/ SubmitMel

SpecEnv == InitEnv /\ [][NextEnv]_vars

\* directory names and file names of the source paths
DirPool == {<<"a">>, <<"export">>, <<"Export">>}

FilePool == {<<"n", ".", "exr">>,
             <<"n", ".", "<UDIM>", ".", "exr">>,
             <<"n", "_", "<UDIM>", ".", "exr">>,
             <<"n", ".", "1001", ".", "exr">>,
             <<"n", "_", "LOD2", ".", "exr">>,
             <<"n", ".", "<udim>", ".", "exr">>}

\* file nodes hold full paths: at least one directory
DirSeqs(n) == UNION {[1..k -> DirPool] : k \in 1..n}

\* one source texture under up to MaxDirs directories
InitTex ==
    /\ parentExists = FALSE /\ entries = {} /\ AllocIdle
    /\ base_percent = 50 /\ lod_total = 0 /\ LodIdle
    /\ mode = "none" /\ cfg = NoConfig /\ PubIdle
    /\ SideIdleExcept({"texVars"})
    /\ \E d \in DirSeqs(MaxDirs), f \in FilePool : tex_path = d \o <<f>>
    /\ tex_switched = NoSwitch /\ tex_local = NoPairs /\ tex_farm = NoPairs

NextTex == ProcessLod \/ RunLocal \/ OiioProcessLodTasks

SpecTex == InitTex /\ [][NextTex]_vars

\* one texture_convert job over a manifest of 1..MaxManifest tiles
InitOiio ==
    /\ parentExists = FALSE /\ entries = {} /\ AllocIdle
    /\ base_percent = 50 /\ lod_total = 0 /\ LodIdle
    /\ mode = "none" /\ cfg = NoConfig /\ PubIdle
    /\ SideIdleExcept({"oiioVars"})
    /\ sorted_files \in 1..MaxManifest
    /\ oiioPc = "none" /\ oiioTasks = {}
    /\ converted = [i \in 0..(sorted_files - 1) |-> 0]

NextOiio == SubmitOiioJob \/ OiioTask

SpecOiio == InitOiio /\ [][NextOiio]_vars

\* one publish on a fresh or blocked publish parent
Init ==
    /\ mode \in {"local", "farm", "lookdev"}
    /\ cfg \in Configs
    /\ mode = "lookdev" => ~cfg.do_tex
    /\ cfg.tex_files \in {0, MaxTex}
    /\ ~cfg.do_tex => cfg.tex_files = 0
    /\ ~cfg.has_lods => cfg.lod_count = 0
    /\ entries \in {{}, {[name |-> VersionLabel(1), isdir |-> FALSE]}}
    /\ parentExists = (entries # {})
    /\ AllocIdle
    /\ base_percent = 50 /\ lod_total = 0 /\ LodIdle
    /\ PubIdle
    /\ SideIdle

Next ==
    \/ LocalStart \/ LocalTexStart \/ (\E k \in 1..MaxTex : LocalTexWorker(k))
    \/ LocalTexJoin \/ LocalExportBase \/ LocalProxy \/ LocalLod \/ LocalShd
    \/ LocalAssemble
    \/ FarmStart \/ FarmSubmitExport \/ FarmSubmitOiio \/ FarmSubmitProxy
    \/ FarmSubmitLod \/ FarmSubmitAssemble
    \/ (\E t \in AllTasks : SchedStart(t))
    \/ FarmWorkerExportBase \/ FarmWorkerProxy
    \/ (\E i \in 1..MaxLod : FarmWorkerLod(i))
    \/ FarmWorkerOiio \/ FarmWorkerAssemble
    \/ LookdevStart \/ LookdevExport \/ LookdevProxy \/ LookdevPayload
    \/ LookdevMeta \/ LookdevLods \/ LookdevTop

Spec == Init /\ [][Next]_vars

(***************************************************************************)
(* Properties                                                              *)
(***************************************************************************)
Started == {"running", "succeeded", "failed"}
TopWritten == File("top", 0) \in files
FailedOutcomes == {"raised", "nofile", "crashed"}
Last(seq) == seq[Len(seq)]
NamesOf(listing) == {e.name : e \in listing}

\* C1: in local and in farm mode, once assemble has started, every producer
\* task that was scheduled or submitted for this publish is in a terminal
\* state.
C1_AssembleAfterProducers ==
    (mode \in {"local", "farm"} /\ status[Assemble] \in Started)
        => \A t \in Scheduled : status[t] \in Terminal

C1_Witness ==
    /\ mode = "farm"
    /\ status[Assemble] = "running"
    /\ {ExportBase, TexConvert, Proxy, Lod(1), Lod(2)} \subseteq Scheduled
    /\ status[Lod(2)] = "failed"

\* C2: whenever export_base failed (its exporter raised or left no base
\* fragment), no top interface document is written for this publish.
C2_ExportFailureIsFatal ==
    (mode \in {"local", "farm"} /\ outcome[ExportBase] \in {"raised", "nofile"})
        => ~TopWritten

\* C3: when export_base succeeded and an optional producer failed, a publish
\* that has run out of steps has written the top interface document.
C3_Settled ==
    \/ mode = "local" /\ pc.at \in {"done", "aborted"}
    \/ /\ mode = "farm" /\ pc = At("submitted")
       /\ status[Assemble] # "unscheduled"
       /\ \A t \in AllTasks : status[t] \notin {"pending", "running"}

C3_OptionalFailureNonFatal ==
    (/\ C3_Settled
     /\ outcome[ExportBase] = "ok"
     /\ \E t \in Producers \ {ExportBase} : outcome[t] \in FailedOutcomes)
        => TopWritten

\* C4: a label the allocator returns is not the name of any entry it
\* scanned, and on an empty or missing parent the label is v001.
C4_FreshLabel ==
    allocResult = "ok" =>
        /\ Last(issued) \notin NamesOf(scanned)
        /\ scanned = {} => Last(issued) = <<"v", "0", "0", "1">>

C4_Witness ==
    /\ allocResult = "ok"
    /\ Cardinality(scanned) >= 2
    /\ \E e \in scanned : ~e.isdir /\ VersionPat(e.name)
    /\ \E e \in scanned : e.isdir /\ VersionPat(e.name)

\* C5: over successive publishes on one root the labels handed out are
\* strictly increasing, so none is handed out twice.
C5_LabelsIncrease ==
    \A i \in 1..Len(issued) : \A j \in 1..Len(issued) :
        i < j => VersionNum(issued[i]) < VersionNum(issued[j])

C5_Witness ==
    /\ Len(issued) >= 3
    /\ VersionNum(issued[1]) >= 3

\* the largest number among a set of names of the form v + 3 or more digits
C6_MaxOf(names) ==
    LET nums == {VersionNum(n) : n \in {x \in names : VersionPat(x)}}
    IN IF nums = {} THEN 0 ELSE CHOOSE m \in nums : \A n \in nums : n <= m

\* label is "v" followed by the decimal digits of n, zero-padded to three
\* digits and wider only when n needs it
C6_IsLabelOf(label, n) ==
    /\ Len(label) >= 4
    /\ label[1] = "v"
    /\ \A k \in 2..Len(label) : IsDigit(label[k])
    /\ ParseInt(SubSeq(label, 2, Len(label))) = n
    /\ Len(label) > 4 => label[2] # "0"

\* C6 as stated: the label is max + 1 over ALL entries named v + 3 or more
\* digits.
C6_MaxOverEntries ==
    allocResult = "ok" => C6_IsLabelOf(Last(issued), C6_MaxOf(NamesOf(scanned)) + 1)

C6_DirNames == NamesOf({e \in scanned : e.isdir})

\* C6 amended: the label is max + 1 over the DIRECTORIES named v + 3 or more
\* digits (case-insensitive, 0 if none), zero-padded to three digits and
\* wider when needed; gaps are not filled: directories v001, v002, v004
\* give v005 and a directory v999 gives v1000.
C6_MaxOverDirectories ==
    allocResult = "ok" =>
        /\ C6_IsLabelOf(Last(issued), C6_MaxOf(C6_DirNames) + 1)
        /\ {n \in C6_DirNames : VersionPat(n)}
               = {<<"v", "0", "0", "1">>, <<"v", "0", "0", "2">>, <<"v", "0", "0", "4">>}
             => Last(issued) = <<"v", "0", "0", "5">>
        /\ C6_MaxOf(C6_DirNames) = 999
             => Last(issued) = <<"v", "1", "0", "0", "0">>

C6_Witness ==
    /\ allocResult = "ok"
    /\ Last(issued) = <<"v", "0", "0", "5">>
    /\ \E e \in scanned : VersionPat(e.name) /\ ~e.isdir /\ VersionNum(e.name) = 999

RemovePercentSpec(base, i) ==
    LET raw == Rat(Pow(100, i) - Pow(base, i), Pow(100, i - 1))
    IN IF raw.num > 99 * raw.den THEN Rat(99, 1)
       ELSE IF raw.num < 0 THEN Rat(0, 1) ELSE raw

C7_InRange(r) == RLe(Rat(0, 1), r) /\ RLe(r, Rat(99, 1))

\* C7: for every base percentage in (0,100) and level i >= 1 the computed
\* remove_percent equals clamp(100*(1-(base/100)^i), 0, 99), lies in [0,99]
\* and does not decrease with i; the local loop and the farm worker compute
\* the same value; base 50 gives 50, 75, 87.5 for levels 1..3.
C7_RemovePercent ==
    /\ \A i \in 1..Len(localPct) :
          /\ REq(localPct[i], RemovePercentSpec(base_percent, i))
          /\ C7_InRange(localPct[i])
          /\ i > 1 => RLe(localPct[i - 1], localPct[i])
    /\ \A i \in 1..MaxLevel : workerPct[i] # NoPct =>
          /\ REq(workerPct[i], RemovePercentSpec(base_percent, i))
          /\ C7_InRange(workerPct[i])
          /\ i <= Len(localPct) => REq(workerPct[i], localPct[i])
          /\ (i > 1 /\ workerPct[i - 1] # NoPct) => RLe(workerPct[i - 1], workerPct[i])
    /\ (base_percent = 50 /\ Len(localPct) >= 3) =>
          /\ REq(localPct[1], Rat(50, 1))
          /\ REq(localPct[2], Rat(75, 1))
          /\ REq(localPct[3], Rat(875, 10))

C7_Witness ==
    /\ base_percent = 50
    /\ Len(localPct) = 3
    /\ workerPct[3] # NoPct
    /\ localPct[3].num * 10 = 875 * localPct[3].den

\* C8: the payload document lists its sublayers in the order they were
\* handed over (index 0 = first input), and once the meta layer is authored
\* it sits at index 0 with the earlier sublayers following in unchanged
\* order.
C8_PayloadOrder ==
    mode = "lookdev" =>
        /\ (File("payload", 0) \in files /\ MetaLayer \notin files)
              => payloadSubs = <<ProxyPath(cfg), ShdLayer>>
        /\ MetaLayer \in files
              => /\ payloadSubs[1] = MetaLayer
                 /\ SubSeq(payloadSubs, 2, Len(payloadSubs)) = payloadInputs
                 /\ payloadInputs = <<ProxyPath(cfg), ShdLayer>>

C8_Witness ==
    /\ mode = "lookdev" /\ cfg.has_proxy
    /\ pc = At("done")
    /\ payloadSubs = <<MetaLayer, File("proxy", 0), ShdLayer>>

\* C9: with the proxy disabled, the published payload sublayer stack is
\* exactly [meta, base-shading].
C9_NoProxyStack ==
    (mode = "lookdev" /\ ~cfg.has_proxy /\ MetaLayer \in files)
        => payloadSubs = <<MetaLayer, ShdLayer>>

\* C10: every authored variant set ("levels", "mtl", and the 25.12.7
\* variant document) ends with LOD0 selected, whatever number of variants
\* was authored.
C10_DefaultSelected ==
    \A n \in VsetNames : vsets[n].authored => vsets[n].selection = LodName(0)

C10_Witness ==
    /\ mode = "farm"
    /\ cfg.has_lods /\ cfg.lod_count = 2
    /\ vsets["levels"].variants = <<LodName(0), LodName(2)>>
    /\ vsets["mtl"].authored
    /\ Len(vsets["mtl"].variants) = 3
    /\ vsets["levels"].selection = LodName(0)

C13_CopiesOf(m) == {c \in meta_layer.mats : c.from = m}

\* name is base, or base followed by _r and a number from 1 on
C13_IsNameFor(name, base) ==
    \/ name = base
    \/ \E i \in 1..MaxMats : name = base \o <<"_", "r">> \o ToDigits(i)

RECURSIVE C14_Upstream(_, _)
C14_Upstream(t, n) ==
    IF n = 0 THEN {}
    ELSE deps[t] \cup UNION {C14_Upstream(d, n - 1) : d \in deps[t]}

\* C14: in farm mode the submitted job graph has no cycle, every producer job
\* is submitted without dependencies, and once assemble is submitted its
\* dependency list is exactly export_base plus every proxy, lod[i] and
\* texture_convert job that was submitted.
C14_JobGraph ==
    mode = "farm" =>
        /\ \A t \in AllTasks : t \notin C14_Upstream(t, Cardinality(AllTasks))
        /\ \A t \in Producers : deps[t] = {}
        /\ status[Assemble] # "unscheduled" =>
              /\ ExportBase \in deps[Assemble]
              /\ deps[Assemble] = Scheduled

C14_Witness ==
    /\ mode = "farm"
    /\ status[Assemble] = "pending"
    /\ deps[Assemble] = {ExportBase, TexConvert, Lod(2)}
    /\ cfg.has_proxy /\ status[Proxy] = "unscheduled"

\* C15: the record is named from the scan of the task's prior records, and
\* two publishers that submit for the same task concurrently never create
\* two records with the same name.
C15_NoDuplicateNames ==
    \A p, q \in DOMAIN sgPc :
        (p # q /\ sgPc[p] = "created" /\ sgPc[q] = "created")
            => sgCode[p] # sgCode[q]

\* C17: version allocation is not safe against concurrent callers.  A caller
\* that finds its version directory already made by another caller is not
\* refused: it returns that label and that directory, so two interleaved
\* publishes can hold the same label and directory with neither call failing.
C17_SecondCallerNotRefused ==
    \A p \in DOMAIN callers :
        (callers[p].pc = "done" /\ callers[p].isdir) =>
            /\ callers[p].result = "ok"
            /\ [name |-> callers[p].version, isdir |-> TRUE] \in entries
            /\ callers[p].version = VersionLabel(callers[p].max_n + 1)

\* two callers returned the same label and neither failed: one made the
\* directory, the other found it made
C17_Witness ==
    \E p, q \in DOMAIN callers :
        /\ p # q
        /\ callers[p].pc = "done" /\ callers[q].pc = "done"
        /\ callers[p].result = "ok" /\ callers[q].result = "ok"
        /\ callers[p].version = callers[q].version
        /\ ~callers[p].isdir /\ callers[q].isdir

\* C16: a payload, variant or interface document is never written with a
\* sublayer, reference or payload arc to a file that does not exist.
C16_NoArcToMissingFile == \A a \in Arcs : a.layer \in files

\* C18: every LOD level is produced by one reduction of a fresh duplicate of
\* the original source, never by reducing the mesh of the level before it.
C18_FreshDuplicatePerLevel ==
    \A i \in DOMAIN reductions :
        File("geoLOD", i) \in files => Len(reductions[i]) = 1

\* position of a job in the submission chain of run_deadline_publish
C19_ChainOrder(t) ==
    IF t = ExportBase THEN 1
    ELSE IF t = TexConvert THEN 2
    ELSE IF t = Proxy THEN 3
    ELSE IF t = Assemble THEN 4 + MaxLod
    ELSE 3 + t.idx

\* C19: when the enqueue of a job fails (the submit call raises or returns no
\* job id) no further job of this publish is submitted, assemble included.
C19_FailedEnqueueStopsChain ==
    mode = "farm" =>
        \A t \in Requested(cfg) : \A u \in AllTasks :
            (status[t] = "unscheduled" /\ C19_ChainOrder(t) < C19_ChainOrder(u))
                => status[u] = "unscheduled"

\* C20: every producer writes only its own path, the output paths of two
\* different producers never coincide, and the shared top-level documents
\* (geo, shd, payload, top interface) are written by assemble only: no path
\* of the version directory is written by two different tasks.
C20_OneWriterPerPath ==
    mode \in {"local", "farm"} =>
        \A w1 \in Written : \A w2 \in Written :
            w1.path = w2.path => w1.task = w2.task

\* the layer a variant of a set is meant to compose
C21_OwnLayer(n, v) ==
    IF n = "levels" THEN (IF v[2] = 0 THEN File("render", 0) ELSE File("geoLOD", v[2]))
    ELSE IF n = "mtl" THEN File("shdCLEAN", v[2])
    ELSE (IF v[2] = 0 THEN File("payload", 0) ELSE File("lod_wrap", v[2]))

C22_MtlScoped ==
    mode \in {"local", "farm"} =>
        /\ \A r \in vsets["mtl"].refs : r.site = "mtl"
        /\ vsets["levels"].authored =>
              vsets["levels"] = AddGeoVariantsIntoGeoUsd(files, cfg.lod_count)

\* material variants were authored next to geometry variants
C22_Witness ==
    /\ mode \in {"local", "farm"}
    /\ Len(vsets["mtl"].variants) >= 2
    /\ Len(vsets["levels"].variants) >= 2

\* C23: a missing HAL_TASK_ROOT is fatal before any work starts: no version
\* directory is allocated and no label is issued while the variable is unset.
C23_MissingRootIsFatal ==
    hal_root = UnsetRoot =>
        /\ issued = <<>>
        /\ pub_root = NoRoot

\* C24: a failing reduction of one mesh is retried exactly once after the
\* cleanup and the helper then returns True or False without raising, so
\* the loop goes on to the remaining meshes: no mesh sees more than two
\* polyReduce calls, no call of the helper raises, the loop never aborts.
C24_RetryOnceNeverRaises ==
    /\ redLoop # "raised"
    /\ \A k \in 1..Len(redCalls) :
          /\ redCalls[k].result \in {"True", "False"}
          /\ Cardinality({c \in 1..Len(redCalls[k].calls) :
                             redCalls[k].calls[c] = "polyReduce"}) <= 2

\* the key of a "KEY=VALUE" entry: the characters before the first "="
C25_KeyOf(e) ==
    LET eq == CHOOSE i \in 1..Len(e) :
                  e[i] = "=" /\ \A m \in 1..(i - 1) : e[m] # "="
    IN SubSeq(e, 1, eq - 1)

\* the variables of the pool that each submitter's allow-list admits
C25_AllowListed ==
    IF envSubmitter = "26.02.03"
    THEN {<<"P", "A", "T", "H">>,
         <<"P", "Y", "T", "H", "O", "N", "P", "A", "T", "H">>,
         <<"U", "S", "D", "_", "X">>,
         <<"H", "A", "L", "_", "X">>,
         <<"J", "O", "B">>}
    ELSE {<<"P", "A", "T", "H">>,
         <<"P", "Y", "T", "H", "O", "N", "P", "A", "T", "H">>,
         <<"H", "A", "L", "_", "X">>,
         <<"H", "A", "L", "X">>,
         <<"h", "a", "l", "_", "x">>}

\* C25: every variable in the job's environment is a variable of the
\* submitting process that is on the allow-list (a search-path key, an exact
\* pipeline key or a prefixed pipeline key); PYTHONHOME, TEMP, TMP, USER and
\* USERNAME are never among them.
C25_OnlyAllowListed ==
    \A e \in job_env :
        /\ C25_KeyOf(e) \in DOMAIN os_environ
        /\ C25_KeyOf(e) \in C25_AllowListed
        /\ C25_KeyOf(e) \notin blocklist

C25_Witness ==
    /\ envSubmitter # "none"
    /\ job_env # {}
    /\ \E k \in DOMAIN os_environ : k \in blocklist
    /\ \E k \in DOMAIN os_environ : k = <<"S", "E", "C", "R", "E", "T">>

\* C26: once the proxy export step has run, whatever its outcome, the
\* source top node carries its original name again and the proxy duplicate
\* is gone.
C26_SceneRestored ==
    outcome[Proxy] # "none" => scene = SceneStart

\* C27: for every source path and tier, the path the shader variant is
\* switched to is the path the converter writes that tier to.
C27_SwitchedToConverted ==
    \A L \in TexLevels :
        tex_switched[L] # NoPath => tex_switched[L] = get_dst_path(tex_path, L)

\* C28: for every concrete source tile and tier, the local converter and
\* the farm script write to the same destination.
C28_LocalEqualsFarm ==
    \A L \in TexLevels :
        tex_local[L] # {} /\ tex_farm[L] # {} => tex_local[L] = tex_farm[L]

\* C29: the tasks of the texture_convert job cover the manifest exactly
\* once: no entry is ever converted by two tasks, and when every task has
\* run every entry 0..n-1 has been converted by exactly one.
C29_ExactlyOnce ==
    /\ \A i \in DOMAIN converted : converted[i] <= 1
    /\ oiioPc = "submitted" /\ oiioTasks = {} =>
          \A i \in 0..(sorted_files - 1) : converted[i] = 1
    /\ oiioPc = "submitted" =>
          \A i \in 0..(sorted_files - 1) :
              converted[i] = 0 =>
                  Cardinality({t \in oiioTasks : t.start <= i /\ i <= t.end}) = 1

C29_Witness ==
    /\ oiioPc = "submitted" /\ oiioTasks = {}
    /\ sorted_files > 2 * ChunkLimit
    /\ \A i \in 0..(sorted_files - 1) : converted[i] = 1

\* C30: after a variant set was authored, the selected variant is one of
\* the variants added to the set.
C30_SelectionIsMember ==
    \A n \in VsetNames :
        vsets[n].authored =>
            \E k \in 1..Len(vsets[n].variants) :
                vsets[n].variants[k] = vsets[n].selection

====
